---- MODULE Spec2Model ----
(***************************************************************************)
(* Model of the school calendar-data service: the calendar validator, the  *)
(* refiner and its JSON extractor, the record classifiers, and the school  *)
(* and record store with the HTTP endpoints and batch commands over it.    *)
(***************************************************************************)
EXTENDS Integers, Sequences, FiniteSets, TLC

VARIABLES schools, records, clock, input, output, runs

vars == <<schools, records, clock, input, output, runs>>

\* runs holds the requests and command runs that are under way, each with its
\* position and its local variables; it is empty where the operations are taken
\* one at a time, each as one step
NoRuns == <<>>

(***************************************************************************)
(* JSON values.  A value is a record tagged by t; the payload field is     *)
(* named after the tag, so two values of different kinds never have the    *)
(* same fields.  Python's None and JSON null are the same value.           *)
(***************************************************************************)
Null == [t |-> "null"]

\* A string is a sequence of tokens: a token is one lexical unit of text, quoted
\* (a JSON string literal, c its content) or not (punctuation, a word, a blank).
\* The unquoted token "FENCE" is the triple backtick.
Tok(c) == [q |-> FALSE, c |-> c]

QStr(c) == [q |-> TRUE, c |-> c]

Text(toks) == [t |-> "str", s |-> toks]

\* the string whose text is the single word c; Str("") is the empty string
Str(c) == IF c = "" THEN Text(<<>>) ELSE Text(<<Tok(c)>>)

Num(n) == [t |-> "num", n |-> n]

Bool(b) == [t |-> "bool", b |-> b]

List(l) == [t |-> "list", l |-> l]

Obj(o) == [t |-> "obj", o |-> o]

EmptyObj == Obj(<<>>)

IsDict(x) == x.t = "obj"

IsList(x) == x.t = "list"

IsStr(x) == x.t = "str"

Keys(x) == DOMAIN x.o

In(k, x) == k \in DOMAIN x.o

\* Python truthiness: None, False, 0, "", [] and {} are falsy.
Truthy(x) ==
    CASE x.t = "null" -> FALSE
      [] x.t = "bool" -> x.b
      [] x.t = "num" -> x.n # 0
      [] x.t = "str" -> Len(x.s) > 0
      [] x.t = "list" -> Len(x.l) > 0
      [] x.t = "obj" -> DOMAIN x.o # {}

\* dict.get(key, default)
Get(x, k, default) == IF k \in DOMAIN x.o THEN x.o[k] ELSE default

\* {**a, **b} on the key/value maps of two objects
Merge(a, b) == [k \in (DOMAIN a) \cup (DOMAIN b) |-> IF k \in DOMAIN b THEN b[k] ELSE a[k]]

SeqsUpTo(S, n) == UNION {[1..k -> S] : k \in 0..n}

(***************************************************************************)
(* Calendar validator                                                      *)
(***************************************************************************)
Result(ok, reason) == [ok |-> ok, reason |-> reason]

required_fields_swapped == <<"terms", "source_url", "school_name">>

required_fields == <<"school_name", "source_url", "terms">>

required_event_fields_short == <<"start_date">>

required_event_fields == <<"start_date", "event_text">>

\* f"Missing required field: {field}"
MissingFieldMsg(field) ==
    CASE field = "school_name" -> "Missing required field: school_name"
      [] field = "source_url" -> "Missing required field: source_url"
      [] field = "terms" -> "Missing required field: terms"

\* f"Event missing required field: {field}"
MissingEventFieldMsg(field) ==
    CASE field = "start_date" -> "Event missing required field: start_date"
      [] field = "event_text" -> "Event missing required field: event_text"

\* for field in fields: if field not in data: return ...   (0: none missing)
RECURSIVE FirstMissing(_, _, _)
FirstMissing(fields, data, i) ==
    IF i > Len(fields) THEN 0
    ELSE IF ~In(fields[i], data) THEN i
    ELSE FirstMissing(fields, data, i + 1)

\* the inner loop "for event in term['events']", from the j-th event on
RECURSIVE validate_events(_, _)
validate_events(events, j) ==
    IF j > Len(events) THEN Result(TRUE, "Valid")
    ELSE LET event == events[j] IN
         IF ~IsDict(event) THEN Result(FALSE, "Event must be a dictionary")
         ELSE LET m == FirstMissing(required_event_fields, event, 1) IN
              IF m # 0
              THEN Result(FALSE, MissingEventFieldMsg(required_event_fields[m]))
              ELSE validate_events(events, j + 1)

\* the least element of a non-empty set of positions
Least(S) == CHOOSE k \in S : \A k2 \in S : k <= k2

\* the three checks of a term alone, without its events
term_checks(term) ==
    IF ~IsDict(term) THEN Result(FALSE, "Term must be a dictionary")
    ELSE IF ~In("academic_year", term) \/ ~In("term_name", term) \/ ~In("events", term)
    THEN Result(FALSE, "Term missing required fields")
    ELSE IF ~IsList(term.o.events) THEN Result(FALSE, "Events must be a list")
    ELSE Result(TRUE, "Valid")

\* two passes: the checks of every term first, the events of the terms after them
validate_terms_levels_first(terms, i) ==
    IF \E k \in i..Len(terms) : ~term_checks(terms[k]).ok
    THEN term_checks(terms[Least({k \in i..Len(terms) : ~term_checks(terms[k]).ok})])
    ELSE IF \E k \in i..Len(terms) : ~validate_events(terms[k].o.events.l, 1).ok
    THEN validate_events(
             terms[Least({k \in i..Len(terms) :
                             ~validate_events(terms[k].o.events.l, 1).ok})].o.events.l, 1)
    ELSE Result(TRUE, "Valid")

\* the outer loop "for term in data['terms']", from the i-th term on
RECURSIVE validate_terms(_, _)
validate_terms(terms, i) ==
    IF i > Len(terms) THEN Result(TRUE, "Valid")
    ELSE LET term == terms[i] IN
         IF ~IsDict(term) THEN Result(FALSE, "Term must be a dictionary")
         ELSE IF ~In("academic_year", term) \/ ~In("term_name", term)
                 \/ ~In("events", term)
         THEN Result(FALSE, "Term missing required fields")
         ELSE IF ~IsList(term.o.events) THEN Result(FALSE, "Events must be a list")
         ELSE LET r == validate_events(term.o.events.l, 1) IN
              IF ~r.ok THEN r ELSE validate_terms(terms, i + 1)

validate_calendar_format(data) ==
    IF ~IsDict(data) THEN Result(FALSE, "Not a dictionary")
    ELSE LET m == FirstMissing(required_fields, data, 1) IN
         IF m # 0 THEN Result(FALSE, MissingFieldMsg(required_fields[m]))
         ELSE IF ~IsList(data.o.terms) THEN Result(FALSE, "terms must be a list")
         ELSE IF Len(data.o.terms.l) = 0
         THEN Result(FALSE, "terms array is empty (no terms data)")
         ELSE validate_terms(data.o.terms.l, 1)

(***************************************************************************)
(* Normalisation (refine_data)                                             *)
(***************************************************************************)
refined_event_blank(event) ==
    Obj([start_date |-> Get(event, "start_date", Str("")),
         end_date |-> Get(event, "end_date", Str("")),
         time |-> Get(event, "time", Str("")),
         event_text |-> Get(event, "event_text", Str(""))])

refined_event(event) ==
    Obj([start_date |-> Get(event, "start_date", Str("")),
         end_date |-> Get(event, "end_date", Null),
         time |-> Get(event, "time", Null),
         event_text |-> Get(event, "event_text", Str(""))])

refined_term(term) ==
    LET events == Get(term, "events", List(<<>>)).l IN
    Obj([academic_year |-> Get(term, "academic_year", Str("")),
         term_name |-> Get(term, "term_name", Str("")),
         events |-> List([j \in 1..Len(events) |-> refined_event(events[j])])])

refine_data_no_url(data) ==
    IF ~Truthy(data) THEN Null
    ELSE LET terms == Get(data, "terms", List(<<>>)).l IN
         Obj([school_name |-> Get(data, "school_name", Str("")),
              terms |-> List([i \in 1..Len(terms) |-> refined_term(terms[i])])])

\* Only called on a candidate that validate_calendar_format accepted.
refine_data(data) ==
    IF ~Truthy(data) THEN Null
    ELSE LET terms == Get(data, "terms", List(<<>>)).l IN
         Obj([school_name |-> Get(data, "school_name", Str("")),
              source_url |-> Get(data, "source_url", Str("")),
              terms |-> List([i \in 1..Len(terms) |-> refined_term(terms[i])])])

(***************************************************************************)
(* json.loads over a token sequence                                        *)
(***************************************************************************)
NoParse == [ok |-> FALSE, v |-> Null, n |-> 0]

Parsed(v, n) == [ok |-> TRUE, v |-> v, n |-> n]

IsWs(tok) == ~tok.q /\ tok.c = " "

IsPunct(tok, c) == ~tok.q /\ tok.c = c

\* the JSON literals and numbers the token alphabet has
Literals ==
    [null |-> Null, true |-> Bool(TRUE), false |-> Bool(FALSE)]

Numerals ==
    ("0" :> Num(0)) @@ ("1" :> Num(1)) @@ ("2" :> Num(2)) @@ ("5" :> Num(5)) @@ ("9" :> Num(9))

RECURSIVE SkipWs(_, _)
SkipWs(toks, i) ==
    IF i <= Len(toks) /\ IsWs(toks[i]) THEN SkipWs(toks, i + 1) ELSE i

At(toks, i, c) == i <= Len(toks) /\ IsPunct(toks[i], c)

RECURSIVE ParseValue(_, _)
RECURSIVE ParseMembers(_, _, _)
RECURSIVE ParseElements(_, _, _)
\* an object after its opening brace, blanks skipped
ParseObject(toks, j) ==
    IF At(toks, j, "}") THEN Parsed(EmptyObj, j + 1) ELSE ParseMembers(toks, j, <<>>)

\* an array after its opening bracket, blanks skipped
ParseArray(toks, j) ==
    IF At(toks, j, "]") THEN Parsed(List(<<>>), j + 1) ELSE ParseElements(toks, j, <<>>)

\* one JSON value starting exactly at position i
ParseAt(toks, i) ==
    IF i > Len(toks) THEN NoParse
    ELSE IF toks[i].q THEN Parsed(Str(toks[i].c), i + 1)
    ELSE IF toks[i].c = "{" THEN ParseObject(toks, SkipWs(toks, i + 1))
    ELSE IF toks[i].c = "[" THEN ParseArray(toks, SkipWs(toks, i + 1))
    ELSE IF toks[i].c \in DOMAIN Literals THEN Parsed(Literals[toks[i].c], i + 1)
    ELSE IF toks[i].c \in DOMAIN Numerals THEN Parsed(Numerals[toks[i].c], i + 1)
    ELSE NoParse

\* one JSON value starting at or after position i0 (blanks skipped)
ParseValue(toks, i0) == ParseAt(toks, SkipWs(toks, i0))

\* after a member's value: the closing brace, or a comma and the next member
MemberNext(toks, acc, e) ==
    IF At(toks, e, "}") THEN Parsed(Obj(acc), e + 1)
    ELSE IF At(toks, e, ",") THEN ParseMembers(toks, SkipWs(toks, e + 1), acc)
    ELSE NoParse

\* a member whose value parsed as r; a repeated key keeps the last value
MemberValue(toks, key, r, acc) ==
    IF ~r.ok THEN NoParse
    ELSE MemberNext(toks, Merge(acc, key :> r.v), SkipWs(toks, r.n))

\* "key": value pairs up to the closing brace
ParseMembers(toks, i, acc) ==
    IF i > Len(toks) \/ ~toks[i].q \/ ~At(toks, SkipWs(toks, i + 1), ":") THEN NoParse
    ELSE MemberValue(toks, toks[i].c, ParseValue(toks, SkipWs(toks, i + 1) + 1), acc)

\* after an element: the closing bracket, or a comma and the next element
ElementNext(toks, acc, e) ==
    IF At(toks, e, "]") THEN Parsed(List(acc), e + 1)
    ELSE IF At(toks, e, ",") THEN ParseElements(toks, e + 1, acc)
    ELSE NoParse

ElementValue(toks, r, acc) ==
    IF ~r.ok THEN NoParse ELSE ElementNext(toks, Append(acc, r.v), SkipWs(toks, r.n))

\* values up to the closing bracket
ParseElements(toks, i, acc) == ElementValue(toks, ParseValue(toks, i), acc)

\* the value r when nothing but blanks follows it
WholeText(toks, r) ==
    IF r.ok /\ SkipWs(toks, r.n) = Len(toks) + 1 THEN Parsed(r.v, r.n) ELSE NoParse

\* json.loads(text): one value, blanks around it, nothing else
json_loads(toks) == WholeText(toks, ParseValue(toks, 1))

\* the order in which json.dumps writes the keys of the objects of this model
KeyOrder ==
    <<"school_name", "source_url", "terms", "academic_year", "term_name", "events",
      "start_date", "end_date", "time", "event_text", "note", "colour", "extra",
      "text", "raw", "blob", "other", "URN", "EstablishmentName", "Street", "Town",
      "website", "telephone">>

NumeralOf(n) == CHOOSE c \in DOMAIN Numerals : Numerals[c] = Num(n)

RECURSIVE JoinParts(_, _)
\* parts[i], ", ", parts[i+1], ... as one token sequence
JoinParts(parts, i) ==
    IF i > Len(parts) THEN <<>>
    ELSE IF i = Len(parts) THEN parts[i]
    ELSE parts[i] \o <<Tok(","), Tok(" ")>> \o JoinParts(parts, i + 1)

RECURSIVE json_dumps(_)
\* json.dumps(value) as tokens; every string of the value is a plain word
json_dumps(v) ==
    CASE v.t = "null" -> <<Tok("null")>>
      [] v.t = "bool" -> <<Tok(IF v.b THEN "true" ELSE "false")>>
      [] v.t = "num" -> <<Tok(NumeralOf(v.n))>>
      [] v.t = "str" -> <<QStr(IF v.s = <<>> THEN "" ELSE v.s[1].c)>>
      [] v.t = "list" ->
            <<Tok("[")>> \o JoinParts([i \in 1..Len(v.l) |-> json_dumps(v.l[i])], 1)
            \o <<Tok("]")>>
      [] v.t = "obj" ->
            LET ks == SelectSeq(KeyOrder, LAMBDA key : key \in DOMAIN v.o) IN
            <<Tok("{")>>
            \o JoinParts([i \in 1..Len(ks) |->
                            <<QStr(ks[i]), Tok(":"), Tok(" ")>> \o json_dumps(v.o[ks[i]])], 1)
            \o <<Tok("}")>>

(***************************************************************************)
(* JSON extractor                                                          *)
(***************************************************************************)
Slice(toks, a, b) == [k \in 1..(b - a + 1) |-> toks[a + k - 1]]

LeastOrZero(S) == IF S = {} THEN 0 ELSE Least(S)

\* where group 1 starts when the fence pattern is anchored at position i
FenceGroupStart(toks, i) ==
    IF At(toks, i + 1, "json") /\ At(toks, SkipWs(toks, i + 2), "{")
    THEN SkipWs(toks, i + 2) ELSE SkipWs(toks, i + 1)

\* the closing braces after position a that blanks and a fence follow
FenceEnds(toks, a) ==
    {k \in (a + 1)..Len(toks) : At(toks, k, "}") /\ At(toks, SkipWs(toks, k + 1), "FENCE")}

FenceGroup(toks, a) ==
    IF ~At(toks, a, "{") \/ FenceEnds(toks, a) = {} THEN <<0, 0>>
    ELSE <<a, Least(FenceEnds(toks, a))>>

\* r'```(?:json)?\s*(\{.*?\})\s*```' anchored at position i: group 1 for the
\* shortest ".*?" that lets the rest match, as <<from, to>>; <<0, 0>> when the
\* pattern does not match at i
FenceMatchAt(toks, i) ==
    IF ~At(toks, i, "FENCE") THEN <<0, 0>> ELSE FenceGroup(toks, FenceGroupStart(toks, i))

FenceMatchFrom(toks, starts) ==
    IF starts = {} THEN <<0, 0>> ELSE FenceMatchAt(toks, Least(starts))

\* matches[0] of re.findall(json_pattern, text): the leftmost match's group
FirstFenceMatch(toks) ==
    FenceMatchFrom(toks, {i \in 1..Len(toks) : FenceMatchAt(toks, i) # <<0, 0>>})

\* the first position from i on that holds a brace; 0 when there is none
NextBrace(toks, i) ==
    LeastOrZero({k \in i..Len(toks) : IsPunct(toks[k], "{") \/ IsPunct(toks[k], "}")})

RECURSIVE BraceScan(_, _, _)
BraceScanAt(toks, b, depth) ==
    IF b = 0 THEN 0
    ELSE IF IsPunct(toks[b], "{")
    THEN IF depth = 2 THEN 0 ELSE BraceScan(toks, b + 1, 2)
    ELSE IF depth = 1 THEN b ELSE BraceScan(toks, b + 1, 1)

\* r'\{[^{}]*(?:\{[^{}]*\}[^{}]*)*\}' after an opening brace: scan from position
\* k on with the nesting depth (1 or 2); the end position of the match, or 0
\* when a third level opens or the text ends first
BraceScan(toks, k, depth) == BraceScanAt(toks, NextBrace(toks, k), depth)

RECURSIVE BraceMatches(_, _)
\* the match that opens at b and ends at e (0: none), then the matches after it
BraceMatchesAfter(toks, b, e) ==
    IF e = 0 THEN BraceMatches(toks, b + 1)
    ELSE <<(<<b, e>>)>> \o BraceMatches(toks, e + 1)

BraceMatchesAt(toks, b) ==
    IF b = 0 THEN <<>>
    ELSE IF ~IsPunct(toks[b], "{") THEN BraceMatches(toks, b + 1)
    ELSE BraceMatchesAfter(toks, b, BraceScan(toks, b + 1, 1))

\* re.findall(brace_pattern, text): the non-overlapping matches from position i
\* on, left to right, each as <<from, to>>
BraceMatches(toks, i) == BraceMatchesAt(toks, NextBrace(toks, i))

RECURSIVE FirstCalendarMatch(_, _, _)
\* the match that parsed as r when it is a dict with both keys, else the next
CalendarMatch(toks, matches, m, r) ==
    IF r.ok /\ IsDict(r.v) /\ In("school_name", r.v) /\ In("terms", r.v) THEN r.v
    ELSE FirstCalendarMatch(toks, matches, m + 1)

\* for match in matches: the first that parses to a dict with both keys
FirstCalendarMatch(toks, matches, m) ==
    IF m > Len(matches) THEN Null
    ELSE CalendarMatch(toks, matches, m,
                       json_loads(Slice(toks, matches[m][1], matches[m][2])))

Raise(e) == [t |-> "raise", e |-> e]

Raised(x) == x.t = "raise"

\* the text between the positions of a match, parsed; no match, no parse
ParseSlice(toks, match) ==
    IF match = <<0, 0>> THEN NoParse ELSE json_loads(Slice(toks, match[1], match[2]))

\* the attempts without the fenced block
FirstParsed_no_fence(toks, direct, fenced) ==
    IF direct.ok THEN direct.v
    ELSE FirstCalendarMatch(toks, BraceMatches(toks, 1), 1)

\* the three attempts in order: the whole text, the fenced block, the brace matches
FirstParsed(toks, direct, fenced) ==
    IF direct.ok THEN direct.v
    ELSE IF fenced.ok THEN fenced.v
    ELSE FirstCalendarMatch(toks, BraceMatches(toks, 1), 1)

\* extract_json_from_text(text): a JSON value, None (Null), or the exception
\* that leaves the function.  A text that is not a string: json.loads raises a
\* TypeError that the bare except swallows, re.findall raises one that nothing
\* catches.
extract_json_from_text(text) ==
    IF ~Truthy(text) THEN Null
    ELSE IF ~IsStr(text) THEN Raise("TypeError")
    ELSE FirstParsed(text.s, json_loads(text.s), ParseSlice(text.s, FirstFenceMatch(text.s)))

(***************************************************************************)
(* Refinement of one record: the body of the sweep's loop                  *)
(***************************************************************************)
Rejected(reason) == [k |-> "invalid", reason |-> reason]

Refined(data) == [k |-> "refined", data |-> data]

Crashed(e) == [k |-> "raise", e |-> e]

\* list(data.values())[0] of an object with one key
OnlyValue(data) == data.o[CHOOSE key \in Keys(data) : TRUE]

extract_candidate_raw_first(data) ==
    IF IsDict(data) /\ In("school_name", data) /\ In("terms", data) THEN data
    ELSE IF IsDict(data)
    THEN IF In("raw", data) THEN extract_json_from_text(data.o.raw)
         ELSE IF In("text", data) THEN extract_json_from_text(data.o.text)
         ELSE IF Cardinality(Keys(data)) = 1 /\ IsStr(OnlyValue(data))
         THEN extract_json_from_text(OnlyValue(data))
         ELSE Null
    ELSE Null

\* extracted_json of lines 193-209: the candidate, None, or an exception
extract_candidate(data) ==
    IF IsDict(data) /\ In("school_name", data) /\ In("terms", data) THEN data
    ELSE IF IsDict(data)
    THEN IF In("text", data) THEN extract_json_from_text(data.o.text)
         ELSE IF In("raw", data) THEN extract_json_from_text(data.o.raw)
         ELSE IF Cardinality(Keys(data)) = 1 /\ IsStr(OnlyValue(data))
         THEN extract_json_from_text(OnlyValue(data))
         ELSE Null
    ELSE Null

\* the loop body with "if extracted_json is None" in the place of its truth test
refine_record_none_only(data) ==
    IF data = Null THEN Rejected(<<"Data is NULL">>)
    ELSE LET extracted_json == extract_candidate(data) IN
         IF Raised(extracted_json) THEN Crashed(extracted_json.e)
         ELSE IF extracted_json = Null THEN Rejected(<<"Could not extract JSON">>)
         ELSE LET v == validate_calendar_format(extracted_json) IN
              IF ~v.ok THEN Rejected(<<"Invalid format: ", v.reason>>)
              ELSE LET refined == refine_data(extracted_json) IN
                   IF Truthy(refined) THEN Refined(refined) ELSE [k |-> "none"]

\* what the loop body decides for a record whose payload is data; a reason is
\* the sequence of the parts of the formatted message
refine_record(data) ==
    IF data = Null THEN Rejected(<<"Data is NULL">>)
    ELSE LET extracted_json == extract_candidate(data) IN
         IF Raised(extracted_json) THEN Crashed(extracted_json.e)
         ELSE IF ~Truthy(extracted_json) THEN Rejected(<<"Could not extract JSON">>)
         ELSE LET v == validate_calendar_format(extracted_json) IN
              IF ~v.ok THEN Rejected(<<"Invalid format: ", v.reason>>)
              ELSE LET refined == refine_data(extracted_json) IN
                   IF Truthy(refined) THEN Refined(refined) ELSE [k |-> "none"]

(***************************************************************************)
(* Input documents: every document over small pools of events and terms,   *)
(* with at most MaxTerms terms of at most MaxEvents events                 *)
(***************************************************************************)
MaxTerms == 2

MaxEvents == 1

EvFull ==
    Obj([start_date |-> Str("2024-09-01"), end_date |-> Str("2024-09-02"),
         time |-> Str("09:00"), event_text |-> Str("Start of term")])

EvMin == Obj([start_date |-> Str("2024-09-01"), event_text |-> Str("Start of term")])

\* values of the wrong type, an explicit null and a key the format does not have
EvOdd ==
    Obj([start_date |-> Num(5), end_date |-> Null, event_text |-> Null,
         note |-> Str("n")])

EvNoStart == Obj([event_text |-> Str("Start of term"), time |-> Str("09:00")])

EvNoText == Obj([start_date |-> Str("2024-09-01")])

EventPool == {EvFull, EvMin, EvOdd, EvNoStart, EvNoText, EmptyObj, Str("event")}

EventsValues ==
    {List(l) : l \in SeqsUpTo(EventPool, MaxEvents)} \cup {Str("events"), Null}

TermWith(events) ==
    Obj([academic_year |-> Str("2024-2025"), term_name |-> Str("Autumn"),
         events |-> events])

TermOdd ==
    Obj([academic_year |-> Null, term_name |-> Num(5), events |-> List(<<>>),
         colour |-> Str("red")])

TermPool ==
    {TermWith(e) : e \in EventsValues}
    \cup {TermOdd,
          Obj([term_name |-> Str("Autumn"), events |-> Str("events")]),
          Obj([academic_year |-> Str("2024-2025"), events |-> List(<<Str("event")>>)]),
          Obj([academic_year |-> Str("2024-2025"), term_name |-> Str("Autumn")]),
          EmptyObj, Str("term"), List(<<>>)}

TermsValues ==
    {List(l) : l \in SeqsUpTo(TermPool, MaxTerms)} \cup {Str("terms"), Null, EmptyObj}

\* a few values of terms for the documents that already fail at the top level
TermsSamples ==
    {List(<<>>), Str("terms"), List(<<TermWith(List(<<EvFull>>))>>),
     List(<<TermOdd, TermWith(List(<<EvOdd>>))>>), List(<<Str("term")>>)}

TopFields ==
    [school_name |-> Str("A"), source_url |-> Str("u"), extra |-> Num(5)]

\* the object with the top-level keys ks (terms, if among them, is t)
TopDoc(ks, t) ==
    Obj([key \in ks |-> IF key = "terms" THEN t ELSE TopFields[key]])

Docs ==
    {TopDoc({"school_name", "source_url", "terms"}, t) : t \in TermsValues}
    \cup {TopDoc(ks, t) : ks \in SUBSET {"school_name", "source_url", "terms", "extra"},
                          t \in TermsSamples}
    \cup {Null, Str("doc"), Num(5), Bool(TRUE), List(<<>>),
          List(<<TopDoc({"school_name", "source_url", "terms"}, List(<<>>))>>)}

(***************************************************************************)
(* State: the schools and their flags, the data records in creation order  *)
(***************************************************************************)
Schools == {1, 2}

NoOutput == [op |-> "none"]

Idle ==
    /\ schools = [s \in Schools |-> [process |-> FALSE, second_scraper |-> FALSE,
                                     website |-> Null]]
    /\ records = <<>>
    /\ clock = 0

(***************************************************************************)
(* The validator, the normaliser and the refiner applied to one document   *)
(***************************************************************************)
InitDoc ==
    /\ Idle
    /\ runs = NoRuns
    /\ input \in Docs
    /\ output = NoOutput

Validate ==
    /\ output = NoOutput
    /\ output' = [op |-> "validate", r |-> validate_calendar_format(input)]
    /\ UNCHANGED <<schools, records, clock, input, runs>>

Normalize ==
    /\ output = NoOutput
    /\ validate_calendar_format(input).ok
    /\ output' = [op |-> "refine_data", data |-> refine_data(input)]
    /\ UNCHANGED <<schools, records, clock, input, runs>>

RefineOne ==
    /\ output = NoOutput
    /\ output' = [op |-> "refine", r |-> refine_record(input)]
    /\ UNCHANGED <<schools, records, clock, input, runs>>

\* the refined document is handed back as the next payload
RefineAgain ==
    /\ output.op = "refine"
    /\ output.r.k = "refined"
    /\ input' = output.r.data
    /\ output' = NoOutput
    /\ UNCHANGED <<schools, records, clock, runs>>

NextDoc == Validate \/ Normalize \/ RefineOne \/ RefineAgain

SpecDoc == InitDoc /\ [][NextDoc]_vars

(***************************************************************************)
(* Record classifiers: each consumer's own test of a payload               *)
(***************************************************************************)
CalendarKeys(data) == IsDict(data) /\ In("school_name", data) /\ In("terms", data)

data_status_any_terms(data) ==
    IF ~Truthy(data) THEN "NULL"
    ELSE IF CalendarKeys(data)
    THEN LET terms == Get(data, "terms", List(<<>>)) IN
         IF IsList(terms) THEN "Refined" ELSE "Empty Terms"
    ELSE "Invalid"

\* SchoolDataAdmin.data_status: the label of the admin list
data_status(data) ==
    IF ~Truthy(data) THEN "NULL"
    ELSE IF CalendarKeys(data)
    THEN LET terms == Get(data, "terms", List(<<>>)) IN
         IF IsList(terms) /\ Len(terms.l) > 0 THEN "Refined" ELSE "Empty Terms"
    ELSE "Invalid"

\* SchoolDataAdmin.changelist_view: the counters one record adds to
data_stats(data) ==
    IF ~Truthy(data) THEN {"null", "invalid"}
    ELSE IF CalendarKeys(data)
    THEN LET terms == Get(data, "terms", List(<<>>)) IN
         IF IsList(terms) /\ Len(terms.l) > 0 THEN {"refined"}
         ELSE {"empty_terms", "invalid"}
    ELSE {"invalid"}

\* SchoolDataAdmin.export_to_csv: the Data Status, Has Terms and Terms Count cells
export_status(data) ==
    IF ~Truthy(data) THEN [status |-> "NULL", has_terms |-> FALSE, terms_count |-> 0]
    ELSE IF CalendarKeys(data) /\ IsList(Get(data, "terms", List(<<>>)))
    THEN LET terms_count == Len(data.o.terms.l) IN
         IF terms_count > 0
         THEN [status |-> "Refined", has_terms |-> TRUE, terms_count |-> terms_count]
         ELSE [status |-> "Empty Terms", has_terms |-> FALSE, terms_count |-> 0]
    ELSE [status |-> "Invalid", has_terms |-> FALSE, terms_count |-> 0]

\* has_valid_calendar_data, lines 30-42, for the payload of an existing record
valid_calendar_payload(data) ==
    IF ~Truthy(data) THEN FALSE
    ELSE IF CalendarKeys(data)
    THEN LET terms == Get(data, "terms", List(<<>>)) IN
         IsList(terms) /\ Len(terms.l) > 0
    ELSE FALSE

\* get_schools_with_invalid_data, lines 357-365, for the payload of an existing
\* record: has_invalid_data
invalid_payload(data) ==
    IF ~IsDict(data) THEN TRUE
    ELSE ~In("school_name", data) \/ ~In("terms", data)

\* filter_invalid_json: the list an entry is reported in.  The payload of a
\* record is a JSON value, so json.dumps and json.loads of it never raise.
json_status(data) ==
    IF data = Null THEN "null"
    ELSE IF IsDict(data) /\ Cardinality(Keys(data)) = 0 THEN "empty"
    ELSE "valid"

(***************************************************************************)
(* Input payloads: texts around three documents, and the objects that wrap *)
(* them under text, raw and other keys                                     *)
(***************************************************************************)
CalDoc ==
    Obj([school_name |-> Str("A"), source_url |-> Str("u"),
         terms |-> List(<<TermWith(List(<<EvFull>>))>>)])

OtherDoc ==
    Obj([school_name |-> Str("B"), source_url |-> Str("u"), extra |-> Num(5),
         terms |-> List(<<TermWith(List(<<EvMin>>))>>)])

\* valid, and nested only two levels deep
FlatDoc ==
    Obj([school_name |-> Str("C"), source_url |-> Str("u"),
         terms |-> List(<<TermWith(List(<<>>))>>)])

Fenced(toks) == <<Tok("hello"), Tok(" "), Tok("FENCE"), Tok("json"), Tok(" ")>> \o toks
                \o <<Tok(" "), Tok("FENCE")>>

Texts ==
    {Text(json_dumps(CalDoc)), Text(json_dumps(OtherDoc)),
     Text(Fenced(json_dumps(OtherDoc))),
     Text(<<Tok("hello"), Tok(" ")>> \o json_dumps(FlatDoc)),
     Text(<<Tok("hello"), Tok(" ")>> \o json_dumps(CalDoc)),
     Text(<<Tok("hello"), Tok(" "), Tok("world")>>),
     Text(<<Tok("["), Tok("]")>>), Text(<<Tok("5")>>), Text(<<>>)}

WrappedValues == Texts \cup {Num(5), Null, CalDoc}

WrapKeys == {"text", "raw", "blob", "other"}

Payloads ==
    {Obj(f) : f \in UNION {[ks -> WrappedValues] : ks \in SUBSET WrapKeys}}
    \cup {Obj(Merge(d.o, w)) : d \in {CalDoc},
                              w \in UNION {[ks -> Texts] : ks \in SUBSET {"text", "raw"}}}
    \cup {Obj([school_name |-> Str("A"), terms |-> t]) :
              t \in {List(<<>>), Str("terms"), Null, EmptyObj, List(<<Str("term")>>)}}
    \cup {Obj([school_name |-> Str("A")]), Obj([terms |-> List(<<Str("term")>>)]),
          Null, Str("doc"), Text(<<>>), Num(5), Num(0), Bool(TRUE), Bool(FALSE),
          List(<<>>), List(<<CalDoc>>)}
    \cup {Obj([text |-> Text(<<Tok("0")>>)]), Obj([raw |-> Text(<<Tok("{"), Tok("}")>>)]),
          Obj([blob |-> Text(<<Tok("false")>>)]), Obj([text |-> Text(<<Tok("null")>>)]),
          Obj([raw |-> Text(<<Tok("["), Tok("5"), Tok("]")>>)])}

InitPayload ==
    /\ Idle
    /\ runs = NoRuns
    /\ input \in Payloads
    /\ output = NoOutput

DataStatus ==
    /\ output = NoOutput
    /\ output' = [op |-> "data_status", label |-> data_status(input)]
    /\ UNCHANGED <<schools, records, clock, input, runs>>

DataStats ==
    /\ output = NoOutput
    /\ output' = [op |-> "data_stats", counters |-> data_stats(input)]
    /\ UNCHANGED <<schools, records, clock, input, runs>>

ExportStatus ==
    /\ output = NoOutput
    /\ output' = [op |-> "export_to_csv", cells |-> export_status(input)]
    /\ UNCHANGED <<schools, records, clock, input, runs>>

ValidPayload ==
    /\ output = NoOutput
    /\ output' = [op |-> "has_valid_calendar_data", valid |-> valid_calendar_payload(input)]
    /\ UNCHANGED <<schools, records, clock, input, runs>>

InvalidPayload ==
    /\ output = NoOutput
    /\ output' = [op |-> "invalid_data", invalid |-> invalid_payload(input)]
    /\ UNCHANGED <<schools, records, clock, input, runs>>

JsonStatus ==
    /\ output = NoOutput
    /\ output' = [op |-> "filter_invalid_json", list |-> json_status(input)]
    /\ UNCHANGED <<schools, records, clock, input, runs>>

NextPayload ==
    \/ RefineOne
    \/ DataStatus
    \/ DataStats
    \/ ExportStatus
    \/ ValidPayload
    \/ InvalidPayload
    \/ JsonStatus

SpecPayload == InitPayload /\ [][NextPayload]_vars

(***************************************************************************)
(* The record store.  A record has the school it belongs to, its payload   *)
(* and its creation time; records is in creation order.  A school's name,  *)
(* authority and status never change and a record's updated_at is read by  *)
(* no test, so they are not part of the state.  clock counts the records   *)
(* created so far, MaxRecords bounds it.                                   *)
(***************************************************************************)
MaxRecords == 2

\* School.objects.all(): the schools in the order of Meta.ordering
SchoolOrder == <<1, 2>>

SchoolRecords(recs, s) == {i \in 1..Len(recs) : recs[i].school = s}

HasRecords(recs, s) == SchoolRecords(recs, s) # {}

\* the position in recs of the most recently created of the records at positions S
Newest(recs, S) == CHOOSE i \in S : \A j \in S : recs[j].created_at <= recs[i].created_at

\* SchoolData.objects.filter(school=school).order_by('-created_at').first()
LatestIndex(recs, s) == Newest(recs, SchoolRecords(recs, s))

LatestRecord(recs, s) == recs[LatestIndex(recs, s)]

\* SchoolData.objects.create(school=school, data=data) at time now
NewRecord(s, data, now) == [id |-> now, school |-> s, data |-> data, created_at |-> now]

\* the websites that the rows of the imported CSV give the schools
Websites == [s \in Schools |-> IF s = 1 THEN {Str("w")} ELSE {Null, Str("w")}]

\* import_schools creates every school with second_scraper at its default, the
\* process flag from the --process option of its run and the website of its row
Imported ==
    /\ schools \in [Schools -> [process : BOOLEAN, second_scraper : {FALSE},
                                website : {Null, Str("w")}]]
    /\ \A s \in Schools : schools[s].website \in Websites[s]
    /\ records = <<>>
    /\ clock = 0

(***************************************************************************)
(* Payloads of the requests: a refined calendar, a calendar without terms, *)
(* a row of the original CSV, the empty object, a value that is not an     *)
(* object, a calendar kept as text and an object whose text is no string   *)
(***************************************************************************)
CalEmptyDoc ==
    Obj([school_name |-> Str("A"), source_url |-> Str("u"), terms |-> List(<<>>)])

RawDoc == Obj([URN |-> Num(5), Street |-> Str("High")])

PostDocs == {CalDoc, EmptyObj}

\* a scraper's answer kept as text around a valid calendar
WrappedDoc == Obj([text |-> Text(<<Tok("hello"), Tok(" ")>> \o json_dumps(FlatDoc))])

\* an object whose text is no string
NoTextDoc == Obj([text |-> Num(5)])

\* the payloads that the admin enters for each school
AdminDocs ==
    [s \in Schools |-> IF s = 1 THEN {RawDoc, CalDoc, Str("doc")}
                       ELSE {CalEmptyDoc, WrappedDoc, NoTextDoc}]

\* a request body that is not JSON
NotJson == [t |-> "notjson"]

\* a request without a body
NoInput == [t |-> "none"]

PostBodies ==
    {NotJson, List(<<>>), EmptyObj,
     Obj([school_id |-> Num(1)]),
     Obj([data |-> EmptyObj]),
     Obj([school_id |-> Num(1), data |-> Str("doc")]),
     Obj([school_id |-> Num(9), data |-> EmptyObj]),
     Obj([school_id |-> Str("x"), data |-> EmptyObj])}
    \cup {Obj([school_id |-> Num(s), data |-> d]) : s \in Schools, d \in PostDocs}

(***************************************************************************)
(* POST /api/schools/data/                                                 *)
(***************************************************************************)
Response(op, status, body) == [op |-> op, status |-> status, body |-> body]

\* str(value) of a string or a number
StrOf(v) ==
    CASE v.t = "str" -> v.s
      [] v.t = "num" -> <<Tok(NumeralOf(v.n))>>

\* the checks of lines 216-259: the error response, or none when the request
\* names an existing school and carries an object
PostError(body) ==
    IF body = NotJson THEN Response("post", 400, "Invalid JSON in request body")
    ELSE IF ~IsDict(body) THEN Response("post", 500, "AttributeError")
    ELSE IF Get(body, "school_id", Null) = Null
    THEN Response("post", 400, "school_id is required")
    ELSE IF Get(body, "data", Null) = Null THEN Response("post", 400, "data is required")
    ELSE IF ~IsDict(body.o.data) THEN Response("post", 400, "data must be a JSON object")
    ELSE IF body.o.school_id.t # "num"
    THEN Response("post", 400, "Invalid school_id format. Must be an integer.")
    ELSE IF body.o.school_id.n \notin Schools THEN Response("post", 404, "not found")
    ELSE NoOutput

\* existing_data = school_data.data if school_data.data else {}
existing_data(data) == IF Truthy(data) THEN data ELSE EmptyObj

\* {**existing_data, **data}
updated_data(existing, data) == Obj(Merge(existing.o, data.o))

\* the request makes a new record although the school has one
PostUpdate_creates(s, i, data) ==
    /\ clock < MaxRecords
    /\ clock' = clock + 1
    /\ records' = Append(records, NewRecord(s, data, clock'))
    /\ output' = [op |-> "post", status |-> 201, action |-> "created",
                  school_id |-> StrOf(Num(s)), data |-> data]
    /\ UNCHANGED <<schools, runs>>

PostUpdate(s, i, data) ==
    IF ~IsDict(existing_data(records[i].data))
    THEN /\ output' = Response("post", 500, "TypeError")
         /\ UNCHANGED <<schools, records, clock, runs>>
    ELSE /\ records' = [records EXCEPT ![i].data = updated_data(existing_data(@), data)]
         /\ output' = [op |-> "post", status |-> 200, action |-> "updated",
                       school_id |-> StrOf(Num(s)), data |-> records'[i].data]
         /\ UNCHANGED <<schools, clock, runs>>

PostCreate(s, data) ==
    /\ clock < MaxRecords
    /\ clock' = clock + 1
    /\ records' = Append(records, NewRecord(s, data, clock'))
    /\ output' = [op |-> "post", status |-> 201, action |-> "created",
                  school_id |-> StrOf(Num(s)), data |-> data]
    /\ UNCHANGED <<schools, runs>>

create_or_update_school_data ==
    \E body \in PostBodies :
        /\ input' = body
        /\ IF PostError(body) # NoOutput
           THEN /\ output' = PostError(body)
                /\ UNCHANGED <<schools, records, clock, runs>>
           ELSE IF HasRecords(records, body.o.school_id.n)
           THEN PostUpdate(body.o.school_id.n,
                           LatestIndex(records, body.o.school_id.n), body.o.data)
           ELSE PostCreate(body.o.school_id.n, body.o.data)

(***************************************************************************)
(* The admin's add form of SchoolData                                      *)
(***************************************************************************)
AdminAddRecord ==
    \E s \in Schools : \E data \in AdminDocs[s] :
        /\ clock < MaxRecords
        /\ clock' = clock + 1
        /\ records' = Append(records, NewRecord(s, data, clock'))
        /\ input' = data
        /\ output' = [op |-> "admin_add", school |-> s, id |-> clock']
        /\ UNCHANGED <<schools, runs>>

(***************************************************************************)
(* GET /api/schools/invalid-data/ and GET /api/schools/random/prompt/      *)
(***************************************************************************)
\* text.strip() over the tokens of a text
RECURSIVE StripRight(_)
StripRight(toks) ==
    IF Len(toks) > 0 /\ IsWs(toks[Len(toks)]) THEN StripRight(SubSeq(toks, 1, Len(toks) - 1))
    ELSE toks

Strip(toks) == StripRight(SubSeq(toks, SkipWs(toks, 1), Len(toks)))

\* the filter without its process condition
InvalidDataCandidates_any_process(sch) ==
    {s \in Schools : /\ ~sch[s].second_scraper
                     /\ sch[s].website # Null
                     /\ sch[s].website # Str("")}

\* the filter without its second_scraper condition
InvalidDataCandidates_any_scraper(sch) ==
    {s \in Schools : /\ sch[s].process
                     /\ sch[s].website # Null
                     /\ sch[s].website # Str("")}

\* filter(process=True, second_scraper=False, website__isnull=False).exclude(website='')
InvalidDataCandidates(sch) ==
    {s \in Schools : /\ sch[s].process
                     /\ ~sch[s].second_scraper
                     /\ sch[s].website # Null
                     /\ sch[s].website # Str("")}

\* the reason a candidate is collected for; "" when its latest record has both keys
InvalidReason(recs, s) ==
    IF ~HasRecords(recs, s) THEN "no_data"
    ELSE IF invalid_payload(LatestRecord(recs, s).data) THEN "invalid_data"
    ELSE ""

valid_schools(sch, recs) ==
    {s \in InvalidDataCandidates(sch) : InvalidReason(recs, s) # ""}

get_schools_with_invalid_data ==
    /\ input' = NoInput
    /\ IF valid_schools(schools, records) = {}
       THEN /\ output' = Response("invalid_data", 404, "No school found with invalid data")
            /\ UNCHANGED <<schools, records, clock, runs>>
       ELSE \E s \in valid_schools(schools, records) :
               /\ schools' = [schools EXCEPT ![s].second_scraper = TRUE]
               /\ output' = [op |-> "invalid_data", status |-> 200, school_id |-> s,
                             website |-> Strip(schools[s].website.s),
                             reason |-> InvalidReason(records, s)]
               /\ UNCHANGED <<records, clock, runs>>

schools_not_processed(sch) ==
    {s \in Schools : sch[s].process /\ ~sch[s].second_scraper}

schools_with_data(sch) ==
    IF schools_not_processed(sch) # {} THEN schools_not_processed(sch) ELSE Schools

\* the URL the prompt is generated with
website_url(website) ==
    IF Truthy(website) THEN Strip(website.s) ELSE <<Tok("https://example.com")>>

\* third_scraper is no field of School: the assignment sets an attribute of the
\* instance, and save() writes back the fields as they were read
get_random_school_prompt ==
    \E random_school \in schools_with_data(schools) :
        /\ input' = NoInput
        /\ schools' = [schools EXCEPT ![random_school] = schools[random_school]]
        /\ output' = [op |-> "random_prompt", status |-> 200,
                      school_id |-> StrOf(Num(random_school)),
                      url |-> website_url(schools[random_school].website)]
        /\ UNCHANGED <<records, clock, runs>>

(***************************************************************************)
(* update_process_status: the process-flag reconciler                      *)
(***************************************************************************)
\* the run takes the option as it is given
DryRunMode_as_given(dry_run, opt_in) == dry_run

\* if not update: dry_run = True (the refinement sweep: if not save)
DryRunMode(dry_run, opt_in) == dry_run \/ ~opt_in

has_valid_calendar_data_oldest(recs, s) ==
    IF ~HasRecords(recs, s) THEN FALSE
    ELSE valid_calendar_payload(
             recs[CHOOSE i \in SchoolRecords(recs, s) :
                     \A j \in SchoolRecords(recs, s) : i <= j].data)

has_valid_calendar_data(recs, s) ==
    IF ~HasRecords(recs, s) THEN FALSE
    ELSE valid_calendar_payload(LatestRecord(recs, s).data)

schools_to_set_true(sch, recs) ==
    {s \in Schools : has_valid_calendar_data(recs, s) /\ ~sch[s].process}

\* the list filled without looking at --set-false
schools_to_set_false_always(sch, recs, set_false) ==
    {s \in Schools : ~has_valid_calendar_data(recs, s) /\ sch[s].process}

schools_to_set_false(sch, recs, set_false) ==
    {s \in Schools : ~has_valid_calendar_data(recs, s) /\ sch[s].process /\ set_false}

schools_already_correct(sch, recs) ==
    {s \in Schools : has_valid_calendar_data(recs, s) = sch[s].process}

\* the first write loop alone
ProcessUpdated_promotions_only(sch, to_true, to_false) ==
    [s \in Schools |->
        IF s \in to_true THEN [sch[s] EXCEPT !.process = TRUE] ELSE sch[s]]

\* the writes of lines 159-183
ProcessUpdated(sch, to_true, to_false) ==
    [s \in Schools |->
        IF s \in to_true THEN [sch[s] EXCEPT !.process = TRUE]
        ELSE IF s \in to_false THEN [sch[s] EXCEPT !.process = FALSE]
        ELSE sch[s]]

update_process_status ==
    \E dry_run \in BOOLEAN, update \in BOOLEAN, set_false \in BOOLEAN :
        /\ input' = [t |-> "options", dry_run |-> dry_run, update |-> update,
                     set_false |-> set_false]
        /\ output' = [op |-> "update_process_status",
                      mode |-> IF DryRunMode(dry_run, update) THEN "DRY RUN"
                               ELSE "UPDATE MODE",
                      set_false |-> set_false,
                      to_set_true |-> schools_to_set_true(schools, records),
                      to_set_false |-> schools_to_set_false(schools, records, set_false),
                      already_correct |-> schools_already_correct(schools, records)]
        /\ schools' = IF DryRunMode(dry_run, update) THEN schools
                      ELSE ProcessUpdated(schools, schools_to_set_true(schools, records),
                                          schools_to_set_false(schools, records, set_false))
        /\ UNCHANGED <<records, clock, runs>>

(***************************************************************************)
(* reset_scraper_flags_no_data: the flag-reset sweep                       *)
(***************************************************************************)
\* the fields of School that a query can name
SchoolFields ==
    {"urn", "establishment_name", "local_authority", "establishment_status",
     "process", "website", "second_scraper"}

\* annotate(num_data=Count('school_data')).filter(num_data=0)
schools_no_data(recs) == {s \in Schools : ~HasRecords(recs, s)}

\* the filter of lines 29-31 names second_scraper and third_scraper: building it
\* raises FieldError when one of them is no field of the model
reset_scraper_flags_no_data ==
    \E dry_run \in BOOLEAN :
        /\ input' = [t |-> "options", dry_run |-> dry_run]
        /\ IF ~({"second_scraper", "third_scraper"} \subseteq SchoolFields)
           THEN /\ output' = [op |-> "reset_scraper_flags", raised |-> "FieldError"]
                /\ UNCHANGED <<schools, records, clock, runs>>
           ELSE /\ output' = [op |-> "reset_scraper_flags", raised |-> "",
                              to_update |-> {s \in schools_no_data(records) :
                                                schools[s].second_scraper}]
                /\ schools' = IF dry_run THEN schools
                              ELSE [s \in Schools |->
                                      IF s \in schools_no_data(records)
                                         /\ schools[s].second_scraper
                                      THEN [schools[s] EXCEPT !.second_scraper = FALSE]
                                      ELSE schools[s]]
                /\ UNCHANGED <<records, clock, runs>>

(***************************************************************************)
(* export_calendar_csv                                                     *)
(***************************************************************************)
\* the records of a school that hold a row of the original CSV
OriginalRecords(recs, s) ==
    {i \in SchoolRecords(recs, s) :
        /\ Truthy(recs[i].data)
        /\ IsDict(recs[i].data)
        /\ (In("URN", recs[i].data) \/ In("EstablishmentName", recs[i].data))}

\* lines 30-41: the newest record with original CSV data, None when there is none
original_data(recs, s) ==
    IF OriginalRecords(recs, s) = {} THEN Null
    ELSE recs[Newest(recs, OriginalRecords(recs, s))].data

AddressKeys == <<"Street", "Locality", "Town", "Postcode">>

\* the fields named by keys that original has with a truthy value, as text
TruthyParts(original, keys) ==
    LET present == SelectSeq(keys, LAMBDA key : Truthy(Get(original, key, Null))) IN
    [i \in 1..Len(present) |-> StrOf(original.o[present[i]])]

address(original) ==
    IF ~Truthy(original) THEN <<>> ELSE JoinParts(TruthyParts(original, AddressKeys), 1)

coordinate(original, key) ==
    IF Truthy(original) /\ In(key, original) THEN StrOf(original.o[key]) ELSE <<>>

website_info(website, original) ==
    IF Truthy(website) THEN "website" :> website
    ELSE IF Truthy(original) /\ Truthy(Get(original, "SchoolWebsite", Null))
    THEN "website" :> original.o.SchoolWebsite
    ELSE <<>>

telephone_info(original) ==
    IF Truthy(original) /\ Truthy(Get(original, "TelephoneNum", Null))
    THEN "telephone" :> original.o.TelephoneNum
    ELSE <<>>

contact_detail(contact_info) ==
    IF DOMAIN contact_info # {} THEN json_dumps(Obj(contact_info))
    ELSE <<Tok("{"), Tok("}")>>

SchoolInfo(website, original) ==
    [address |-> address(original),
     latitude |-> coordinate(original, "Latitude"),
     longitude |-> coordinate(original, "Longitude"),
     contact_detail |-> contact_detail(Merge(website_info(website, original),
                                             telephone_info(original)))]

extract_school_info(sch, recs, s) == SchoolInfo(sch[s].website, original_data(recs, s))

\* the parts of sep.join(parts) from the i-th part on
RECURSIVE Joined(_, _, _)
Joined(parts, sep, i) ==
    IF i > Len(parts) THEN <<>>
    ELSE IF i = Len(parts) THEN <<parts[i]>>
    ELSE <<parts[i], sep>> \o Joined(parts, sep, i + 1)

\* the parts of a text, its empty parts left out: the text '' has no parts
TextOf(parts) == SelectSeq(parts, LAMBDA v : v # Str(""))

\* f"{start_date} to {end_date}", or start_date alone
date_str(start_date, end_date) ==
    IF Truthy(end_date) /\ start_date # end_date
    THEN TextOf(<<start_date, Str(" to "), end_date>>)
    ELSE TextOf(<<start_date>>)

event_texts(events) ==
    LET with_text == SelectSeq(events, LAMBDA e : Truthy(Get(e, "event_text", Str("")))) IN
    [i \in 1..Len(with_text) |-> with_text[i].o.event_text]

TermCells(term_name, events) ==
    IF Truthy(events)
    THEN [term |-> term_name,
          date |-> date_str(Get(events.l[1], "start_date", Str("")),
                            Get(events.l[1], "end_date", Str(""))),
          detail |-> TextOf(Joined(event_texts(events.l), Str(" | "), 1))]
    ELSE [term |-> term_name, date |-> <<>>, detail |-> <<>>]

EmptyCells == [term |-> Str(""), date |-> <<>>, detail |-> <<>>]

extract_term_events(calendar_data) ==
    IF ~Truthy(calendar_data) \/ ~In("terms", calendar_data) THEN <<>>
    ELSE [i \in 1..Len(calendar_data.o.terms.l) |->
            TermCells(Get(calendar_data.o.terms.l[i], "term_name", Str("")),
                      Get(calendar_data.o.terms.l[i], "events", List(<<>>)))]

\* lines 195-203: the latest record's payload when it has both calendar keys
calendar_data(recs, s) ==
    IF HasRecords(recs, s) /\ Truthy(LatestRecord(recs, s).data)
       /\ CalendarKeys(LatestRecord(recs, s).data)
    THEN LatestRecord(recs, s).data
    ELSE Null

\* len(calendar_data.get('terms', [])) of a list or an object
terms_count(data) ==
    CASE ~In("terms", data) -> 0
      [] In("terms", data) /\ IsList(data.o.terms) -> Len(data.o.terms.l)
      [] In("terms", data) /\ IsDict(data.o.terms) -> Cardinality(Keys(data.o.terms))

find_max_terms(recs) ==
    LET counts == {0} \cup {terms_count(calendar_data(recs, s)) :
                              s \in {x \in Schools : calendar_data(recs, x) # Null}} IN
    CHOOSE n \in counts : \A m \in counts : m <= n

Column(name, index) == [name |-> name, index |-> index]

headers(max_terms) ==
    <<Column("school_id", 0), Column("school_name", 0), Column("address", 0),
      Column("latitude", 0), Column("longitude", 0), Column("contact_detail", 0)>>
    \o [k \in 1..(3 * max_terms) |->
          CASE k % 3 = 1 -> Column("term_", (k + 2) \div 3)
            [] k % 3 = 2 -> Column("date_", (k + 1) \div 3)
            [] k % 3 = 0 -> Column("nt_detail", 0)]

\* the term cells as extracted, without the filling up to max_terms
Padded_as_extracted(terms_data, max_terms) == terms_data

Padded(terms_data, max_terms) ==
    [i \in 1..max_terms |-> IF i <= Len(terms_data) THEN terms_data[i] ELSE EmptyCells]

Row(s, school_info, terms_data, max_terms) ==
    [school_id |-> s, info |-> school_info, terms |-> Padded(terms_data, max_terms)]

\* the rows of lines 193-239 over the schools in order
Rows(sch, recs, include_invalid, max_terms) ==
    LET listed == SelectSeq(SchoolOrder,
                            LAMBDA s : calendar_data(recs, s) # Null \/ include_invalid) IN
    [i \in 1..Len(listed) |->
        Row(listed[i], extract_school_info(sch, recs, listed[i]),
            extract_term_events(calendar_data(recs, listed[i])), max_terms)]

export_csv(sch, recs, include_invalid) ==
    [op |-> "export_calendar_csv",
     include_invalid |-> include_invalid,
     headers |-> headers(find_max_terms(recs)),
     rows |-> Rows(sch, recs, include_invalid, find_max_terms(recs))]

export_calendar_csv ==
    \E include_invalid \in BOOLEAN :
        /\ input' = NoInput
        /\ output' = export_csv(schools, records, include_invalid)
        /\ UNCHANGED <<schools, records, clock, runs>>

(***************************************************************************)
(* GET /schools/: the dump of all schools                                  *)
(***************************************************************************)
school_info(sch, recs, s) ==
    [urn |-> s, process |-> sch[s].process, website |-> sch[s].website,
     data |-> IF HasRecords(recs, s) THEN LatestRecord(recs, s).data ELSE Null,
     data_created_at |-> IF HasRecords(recs, s) THEN LatestRecord(recs, s).created_at
                         ELSE 0]

schools_data(sch, recs) == [i \in 1..Len(SchoolOrder) |-> school_info(sch, recs, SchoolOrder[i])]

display_all_schools_data ==
    /\ input' = NoInput
    /\ output' = [op |-> "display_all", schools_data |-> schools_data(schools, records)]
    /\ UNCHANGED <<schools, records, clock, runs>>

(***************************************************************************)
(* refine_calendar_data: the refinement sweep.  Its report can also be     *)
(* written to a file (--output file), which is no part of the store.       *)
(***************************************************************************)
\* what the loop body decides for each record
SweepResults(recs) == [i \in 1..Len(recs) |-> refine_record(recs[i].data)]

refined_entries(results) == {i \in DOMAIN results : results[i].k = "refined"}

invalid_entries(results) == {i \in DOMAIN results : results[i].k = "invalid"}

\* the records whose loop body raises; the loop visits the records newest first
SweepRaises(results) == {i \in DOMAIN results : results[i].k = "raise"}

FirstRaised(recs, results) == results[Newest(recs, SweepRaises(results))].e

\* school_data.data = refined_data; school_data.save() for every refined entry
SweepSaved(recs, results) ==
    [i \in 1..Len(recs) |->
        IF results[i].k = "refined" THEN [recs[i] EXCEPT !.data = results[i].data]
        ELSE recs[i]]

\* SchoolData.objects.filter(id=entry['id']).delete() for every invalid entry
SweepDeleted(recs, ids) == SelectSeq(recs, LAMBDA r : r.id \notin ids)

EntryIds(recs, S) == {recs[i].id : i \in S}

\* the run asks for a confirmation before it deletes
AsksConfirmation(dry_run, delete_invalid, results) ==
    invalid_entries(results) # {} /\ delete_invalid /\ ~dry_run

SweepRun(dry_run, delete_invalid, confirm, results) ==
    IF SweepRaises(results) # {}
    THEN /\ output' = [op |-> "refine_calendar_data",
                       raised |-> FirstRaised(records, results)]
         /\ UNCHANGED <<schools, records, clock, runs>>
    ELSE /\ output' = [op |-> "refine_calendar_data", raised |-> "",
                       mode |-> IF dry_run THEN "DRY RUN" ELSE "SAVE MODE",
                       refined |-> EntryIds(records, refined_entries(results)),
                       invalid |-> EntryIds(records, invalid_entries(results)),
                       deleted |-> AsksConfirmation(dry_run, delete_invalid, results)
                                   /\ confirm]
         /\ records' =
               IF dry_run THEN records
               ELSE IF AsksConfirmation(dry_run, delete_invalid, results) /\ confirm
               THEN SweepDeleted(SweepSaved(records, results),
                                 EntryIds(records, invalid_entries(results)))
               ELSE SweepSaved(records, results)
         /\ UNCHANGED <<schools, clock, runs>>

refine_calendar_data ==
    \E dry_run \in BOOLEAN, save \in BOOLEAN, delete_invalid \in BOOLEAN :
        \E confirm \in IF AsksConfirmation(DryRunMode(dry_run, save), delete_invalid,
                                           SweepResults(records))
                       THEN BOOLEAN ELSE {FALSE} :
            /\ input' = [t |-> "options", dry_run |-> dry_run, save |-> save,
                         delete_invalid |-> delete_invalid]
            /\ SweepRun(DryRunMode(dry_run, save), delete_invalid, confirm,
                        SweepResults(records))

(***************************************************************************)
(* import_schools run again on the CSV file.  The schools of the file are  *)
(* the schools of the store, so every row finds its school and is skipped; *)
(* a row never makes a record.                                             *)
(***************************************************************************)
\* School.objects.filter(urn=urn).exists() for the rows of the file
schools_in_store(sch) == {s \in Schools : s \in DOMAIN sch}

import_schools ==
    \E process_value \in BOOLEAN :
        /\ input' = [t |-> "csv_file", process |-> process_value]
        /\ output' = [op |-> "import_schools",
                      created_count |-> Cardinality(Schools \ schools_in_store(schools)),
                      skipped_count |-> Cardinality(schools_in_store(schools))]
        /\ schools' = [s \in Schools |->
                          IF s \in schools_in_store(schools) THEN schools[s]
                          ELSE [process |-> process_value, second_scraper |-> FALSE,
                                website |-> Null]]
        /\ UNCHANGED <<records, clock, runs>>

(***************************************************************************)
(* The service: the schools as imported, then any sequence of requests and *)
(* command runs, one at a time                                             *)
(***************************************************************************)
Init ==
    /\ Imported
    /\ runs = NoRuns
    /\ input = NoInput
    /\ output = NoOutput

Next ==
    \/ create_or_update_school_data
    \/ AdminAddRecord
    \/ get_schools_with_invalid_data
    \/ get_random_school_prompt
    \/ update_process_status
    \/ reset_scraper_flags_no_data
    \/ refine_calendar_data
    \/ import_schools
    \/ export_calendar_csv
    \/ display_all_schools_data

Spec == Init /\ [][Next]_vars

(***************************************************************************)
(* Properties of the validator and the normaliser                          *)
(***************************************************************************)
\* the reason of the first top-level check that a document fails; "" when it
\* passes all of them
ExpectedTopReason(doc) ==
    IF ~IsDict(doc) THEN "Not a dictionary"
    ELSE IF "school_name" \notin Keys(doc) THEN "Missing required field: school_name"
    ELSE IF "source_url" \notin Keys(doc) THEN "Missing required field: source_url"
    ELSE IF "terms" \notin Keys(doc) THEN "Missing required field: terms"
    ELSE IF ~IsList(doc.o.terms) THEN "terms must be a list"
    ELSE IF doc.o.terms.l = <<>> THEN "terms array is empty (no terms data)"
    ELSE ""

TermEventReasons ==
    {"Term must be a dictionary", "Term missing required fields",
     "Events must be a list", "Event must be a dictionary",
     "Event missing required field: start_date",
     "Event missing required field: event_text"}

ValidEvent(e) == IsDict(e) /\ {"start_date", "event_text"} \subseteq Keys(e)

ValidTerm(term) ==
    /\ IsDict(term)
    /\ {"academic_year", "term_name", "events"} \subseteq Keys(term)
    /\ IsList(term.o.events)
    /\ \A j \in 1..Len(term.o.events.l) : ValidEvent(term.o.events.l[j])

ValidShape(doc) ==
    /\ IsDict(doc)
    /\ {"school_name", "source_url", "terms"} \subseteq Keys(doc)
    /\ IsList(doc.o.terms)
    /\ doc.o.terms.l # <<>>
    /\ \A i \in 1..Len(doc.o.terms.l) : ValidTerm(doc.o.terms.l[i])

\* C1: validate reports the reason of the earliest failing top-level check, in
\* the order not-an-object, school_name, source_url, terms missing, terms not a
\* list, terms empty; only a document passing all of these gets a term or event
\* reason or Valid, and Valid is returned only when no check fails.
C1_FirstFailingCheck ==
    output.op = "validate" =>
        LET e == ExpectedTopReason(input) IN
        /\ e # "" => output.r = Result(FALSE, e)
        /\ e = "" => output.r.reason \in TermEventReasons \cup {"Valid"}
        /\ output.r.ok <=> output.r.reason = "Valid"
        /\ output.r.ok => ValidShape(input)

\* a document without school_name whose terms is not a list: the field is reported
C1_Witness ==
    /\ output.op = "validate"
    /\ IsDict(input)
    /\ ~In("school_name", input)
    /\ In("terms", input)
    /\ ~IsList(input.o.terms)
    /\ output.r = Result(FALSE, "Missing required field: school_name")

\* C2: validate returns Valid exactly for the objects with the three top-level
\* fields, a non-empty list of terms, every term an object with its three fields
\* and a list of events, every event an object with start_date and event_text.
C2_ValidIffShape ==
    output.op = "validate" => (output.r.ok <=> ValidShape(input))

\* accepted although a term has no events and fields hold values of other types
C2_Witness ==
    /\ output.op = "validate"
    /\ output.r.ok
    /\ \E i \in 1..Len(input.o.terms.l) : input.o.terms.l[i] = TermOdd
    /\ \E i \in 1..Len(input.o.terms.l) : input.o.terms.l[i] = TermWith(List(<<EvOdd>>))

\* C4: on a document that validate accepts, refinement yields the normalised
\* document, which validate accepts again and which refinement maps to itself.
C4_RefineIdempotent ==
    (output.op = "refine" /\ ValidShape(input)) =>
        /\ output.r = Refined(refine_data(input))
        /\ validate_calendar_format(output.r.data) = Result(TRUE, "Valid")
        /\ refine_record(output.r.data) = output.r

\* refinement of a valid document that normalisation changes
C4_Witness ==
    /\ output.op = "refine"
    /\ ValidShape(input)
    /\ output.r.k = "refined"
    /\ output.r.data # input

EventKeys == {"start_date", "end_date", "time", "event_text"}

NormalEvent(in, out) ==
    /\ IsDict(out)
    /\ Keys(out) = EventKeys
    /\ out.o.start_date = in.o.start_date
    /\ out.o.event_text = in.o.event_text
    /\ out.o.end_date = (IF In("end_date", in) THEN in.o.end_date ELSE Null)
    /\ out.o.time = (IF In("time", in) THEN in.o.time ELSE Null)

NormalTerm(in, out) ==
    /\ IsDict(out)
    /\ Keys(out) = {"academic_year", "term_name", "events"}
    /\ out.o.academic_year = in.o.academic_year
    /\ out.o.term_name = in.o.term_name
    /\ IsList(out.o.events)
    /\ Len(out.o.events.l) = Len(in.o.events.l)
    /\ \A j \in 1..Len(in.o.events.l) : NormalEvent(in.o.events.l[j], out.o.events.l[j])

\* C5: the normalised document has exactly school_name, source_url and terms;
\* the terms of the input in order, each with exactly its three keys; the events
\* of each term in order, each with exactly its four keys; start_date and
\* event_text copied, end_date and time passed through or null when absent.
C5_NormalShape ==
    output.op = "refine_data" =>
        /\ IsDict(output.data)
        /\ Keys(output.data) = {"school_name", "source_url", "terms"}
        /\ output.data.o.school_name = input.o.school_name
        /\ output.data.o.source_url = input.o.source_url
        /\ IsList(output.data.o.terms)
        /\ Len(output.data.o.terms.l) = Len(input.o.terms.l)
        /\ \A i \in 1..Len(input.o.terms.l) :
              NormalTerm(input.o.terms.l[i], output.data.o.terms.l[i])

\* a normalised document whose input had extra keys at every level and an event
\* without time
C5_Witness ==
    /\ output.op = "refine_data"
    /\ In("extra", input)
    /\ \E i \in 1..Len(input.o.terms.l) : input.o.terms.l[i] = TermOdd
    /\ \E i \in 1..Len(input.o.terms.l) : input.o.terms.l[i] = TermWith(List(<<EvOdd>>))

(***************************************************************************)
(* Properties of the refiner's dispatch and of the classifiers             *)
(***************************************************************************)
\* what the sweep decides once the dispatch has produced a candidate
AfterExtraction(candidate) ==
    IF Raised(candidate) THEN Crashed(candidate.e)
    ELSE IF ~Truthy(candidate) THEN Rejected(<<"Could not extract JSON">>)
    ELSE IF ~ValidShape(candidate)
    THEN Rejected(<<"Invalid format: ", validate_calendar_format(candidate).reason>>)
    ELSE Refined(refine_data(candidate))

BothKeys(p) == IsDict(p) /\ "school_name" \in Keys(p) /\ "terms" \in Keys(p)

SingleString(p) ==
    /\ Cardinality(Keys(p)) = 1
    /\ \A key \in Keys(p) : IsStr(p.o[key])

\* C3: the refiner dispatches on the payload in the order null, object with both
\* calendar keys (the payload is the candidate), text key, raw key, single key
\* with a string value; every other payload is reported as not extractable.
C3_Dispatch ==
    output.op = "refine" =>
        LET p == input IN
        IF p = Null THEN output.r = Rejected(<<"Data is NULL">>)
        ELSE IF BothKeys(p) THEN output.r = AfterExtraction(p)
        ELSE IF IsDict(p) /\ "text" \in Keys(p)
        THEN output.r = AfterExtraction(extract_json_from_text(p.o.text))
        ELSE IF IsDict(p) /\ "raw" \in Keys(p)
        THEN output.r = AfterExtraction(extract_json_from_text(p.o.raw))
        ELSE IF IsDict(p) /\ SingleString(p)
        THEN \A key \in Keys(p) :
                output.r = AfterExtraction(extract_json_from_text(p.o[key]))
        ELSE output.r = Rejected(<<"Could not extract JSON">>)

\* text and raw both hold a document: the one under text is refined
C3_Witness ==
    /\ output.op = "refine"
    /\ input = Obj([text |-> Text(json_dumps(CalDoc)),
                    raw |-> Text(Fenced(json_dumps(OtherDoc)))])
    /\ output.r = Refined(CalDoc)

Category(label) ==
    CASE label = "NULL" -> "NULL"
      [] label = "Refined" -> "REFINED"
      [] label = "Empty Terms" -> "REFINED_EMPTY_TERMS"
      [] label = "Invalid" -> "INVALID"

NonEmptyTerms(p) == IsList(p.o.terms) /\ p.o.terms.l # <<>>

FalsyValues == {Null, EmptyObj, List(<<>>), Text(<<>>), Num(0), Bool(FALSE)}

C7_ConsumersAgree ==
    output.op = "data_status" =>
        /\ data_stats(input) \in
              {IF output.label = "NULL" THEN {"null", "invalid"}
               ELSE IF output.label = "Refined" THEN {"refined"}
               ELSE IF output.label = "Empty Terms" THEN {"empty_terms", "invalid"}
               ELSE {"invalid"}}
        /\ export_status(input).status = output.label
        /\ valid_calendar_payload(input) = (output.label = "Refined")
        /\ invalid_payload(input) = ~valid_calendar_payload(input)

(***************************************************************************)
(* Properties of the commands and endpoints over the record store          *)
(***************************************************************************)
\* records i of school s that no record of s was created after
IsCurrent(recs, i) ==
    \A j \in 1..Len(recs) :
        recs[j].school = recs[i].school => recs[j].created_at <= recs[i].created_at

\* the school's most recently created record is a refined calendar
RefinedCurrent(recs, s) ==
    \E i \in 1..Len(recs) :
        /\ recs[i].school = s
        /\ IsCurrent(recs, i)
        /\ BothKeys(recs[i].data)
        /\ NonEmptyTerms(recs[i].data)

PromoteSet(sch, recs) == {s \in Schools : RefinedCurrent(recs, s) /\ ~sch[s].process}

DemoteSet(sch, recs, set_false) ==
    {s \in Schools : ~RefinedCurrent(recs, s) /\ sch[s].process /\ set_false}

LatestOnly(recs) == SelectSeq(recs, LAMBDA r : \A j \in 1..Len(recs) :
                                  recs[j].school = r.school => recs[j].created_at <= r.created_at)

\* a step of the reconciler, POST, the invalid-data endpoint or the dump gives
\* the result it gives on the current records alone; POST merges into the
\* current record and changes no other
ReadsCurrentRecord ==
    /\ output'.op = "update_process_status" =>
          /\ output'.to_set_true = schools_to_set_true(schools, LatestOnly(records))
          /\ output'.to_set_false =
                schools_to_set_false(schools, LatestOnly(records), output'.set_false)
    /\ (output'.op = "post" /\ output'.status = 200) =>
          \E i \in 1..Len(records) :
             /\ records[i].school = input'.o.school_id.n
             /\ IsCurrent(records, i)
             /\ output'.data = updated_data(existing_data(records[i].data), input'.o.data)
             /\ records' = [records EXCEPT ![i].data = output'.data]
    /\ (output'.op = "invalid_data" /\ output'.status = 200) =>
          output'.reason = InvalidReason(LatestOnly(records), output'.school_id)
    /\ (output'.op = "invalid_data" /\ output'.status = 404) =>
          valid_schools(schools, LatestOnly(records)) = {}
    /\ output'.op = "display_all" =>
          output'.schools_data = schools_data(schools, LatestOnly(records))

\* a step of the calendar CSV export writes the file it writes for the current
\* records alone
ExportReadsCurrentRecord ==
    output'.op = "export_calendar_csv" =>
        output' = export_csv(schools, LatestOnly(records), output'.include_invalid)

\* C9: every consumer resolves a school's data to its most recently created
\* record: the reconciler, the POST merge, the invalid-data endpoint, the dump
\* and the calendar CSV export give the result they give when the older records
\* of every school are absent.
C9_LatestRecordOnly == [][ReadsCurrentRecord /\ ExportReadsCurrentRecord]_vars

\* C10: a run of the flag-reset sweep that is not a dry run sets second_scraper
\* false for exactly the schools with no record and the flag true, and changes
\* nothing else (third_scraper is no field of a school).
C10_FlagResetEffect ==
    [][(output'.op = "reset_scraper_flags" /\ ~input'.dry_run) =>
          /\ \A s \in Schools :
                schools'[s] = IF ~HasRecords(records, s) /\ schools[s].second_scraper
                              THEN [schools[s] EXCEPT !.second_scraper = FALSE]
                              ELSE schools[s]
          /\ records' = records]_vars

(***************************************************************************)
(* Properties of POST /api/schools/data/                                   *)
(***************************************************************************)
\* the request of the step is a POST that names an existing school and carries
\* an object as data
PostForSchool(body) ==
    /\ IsDict(body)
    /\ In("school_id", body)
    /\ body.o.school_id.t = "num"
    /\ body.o.school_id.n \in Schools
    /\ In("data", body)
    /\ IsDict(body.o.data)

\* the keys of a stored payload that a merge can keep
OldKeys(old) == IF IsDict(old) THEN Keys(old) ELSE {}

\* merged is the shallow merge of old and data
ShallowMerge(old, data, merged) ==
    /\ IsDict(merged)
    /\ Keys(merged) = OldKeys(old) \cup Keys(data)
    /\ \A k \in Keys(data) : merged.o[k] = data.o[k]
    /\ \A k \in OldKeys(old) \ Keys(data) : merged.o[k] = old.o[k]

\* the step leaves every record but the one at position i as it was
OnlyRecordChanged(i) ==
    /\ Len(records') = Len(records)
    /\ \A j \in 1..Len(records) : j # i => records'[j] = records[j]
    /\ records'[i].school = records[i].school
    /\ records'[i].created_at = records[i].created_at

\* what the step does to the store and reports, for a request naming school s
PostEffect(s) ==
    /\ schools' = schools
    /\ IF ~HasRecords(records, s)
       THEN /\ output'.status = 201
            /\ output'.action = "created"
            /\ Len(records') = Len(records) + 1
            /\ SubSeq(records', 1, Len(records)) = records
            /\ records'[Len(records')].school = s
            /\ records'[Len(records')].data = input'.o.data
       ELSE /\ output'.status = 200
            /\ output'.action = "updated"
            /\ OnlyRecordChanged(LatestIndex(records, s))
            /\ ShallowMerge(LatestRecord(records, s).data, input'.o.data,
                            records'[LatestIndex(records, s)].data)

\* C11: a POST for an existing school with an object as data creates a record
\* holding data and reports "created" when the school has no record; otherwise
\* it replaces the payload of the school's current record by the shallow merge
\* of the old payload and data and reports "updated"; no other record and no
\* flag of a school changes.
C11_PostCreatesOrMerges ==
    [][(output'.op = "post" /\ PostForSchool(input')) =>
            PostEffect(input'.o.school_id.n)]_vars

\* the same for the requests that find no record, or an object or a falsy value
\* in the current record
C11_MergesOntoObjects ==
    [][(/\ output'.op = "post"
        /\ PostForSchool(input')
        /\ HasRecords(records, input'.o.school_id.n) =>
              (\/ IsDict(LatestRecord(records, input'.o.school_id.n).data)
               \/ ~Truthy(LatestRecord(records, input'.o.school_id.n).data))) =>
            PostEffect(input'.o.school_id.n)]_vars

\* a request body that the endpoint has to reject as malformed
Malformed(body) ==
    \/ body = NotJson
    \/ ~IsDict(body)
    \/ ~In("school_id", body)
    \/ ~In("data", body)
    \/ ~IsDict(body.o.data)
    \/ body.o.school_id.t # "num"

\* a well-formed request that names no school
UnknownSchool(body) == ~Malformed(body) /\ body.o.school_id.n \notin Schools

StoreUnchanged == schools' = schools /\ records' = records

\* the error response that the step has to give to the request body
PostRejection(body) ==
    /\ Malformed(body) => output'.status = 400 /\ StoreUnchanged
    /\ UnknownSchool(body) => output'.status = 404 /\ StoreUnchanged

\* C12: a POST whose body is not JSON or not an object, lacks school_id or
\* data, carries data that is not an object or a school_id that is not an
\* integer is answered with 400, one naming an unknown school with 404; in
\* each of these cases no record is created or modified and no flag changes.
C12_PostRejects ==
    [][output'.op = "post" => PostRejection(input')]_vars

\* the same for the bodies that are an object or are not JSON at all
C12_ObjectBodiesRejected ==
    [][(output'.op = "post" /\ (IsDict(input') \/ input' = NotJson)) =>
            PostRejection(input')]_vars

(***************************************************************************)
(* Properties of GET /api/schools/invalid-data/ and /random/prompt/        *)
(***************************************************************************)
\* the payload of the school's current record is an object with both keys
BothKeysCurrent(recs, s) ==
    \E i \in 1..Len(recs) :
        /\ recs[i].school = s
        /\ IsCurrent(recs, i)
        /\ IsDict(recs[i].data)
        /\ {"school_name", "terms"} \subseteq Keys(recs[i].data)

\* the reason that the endpoint may return the school for
QualifiesFor(sch, recs, s) ==
    IF ~sch[s].process \/ sch[s].second_scraper THEN "none"
    ELSE IF sch[s].website = Null \/ sch[s].website = Str("") THEN "none"
    ELSE IF \A i \in 1..Len(recs) : recs[i].school # s THEN "no_data"
    ELSE IF ~BothKeysCurrent(recs, s) THEN "invalid_data"
    ELSE "none"

\* C13: the invalid-data endpoint returns only a school that has process true,
\* second_scraper false and a non-empty website and whose current record is
\* missing (reason "no_data") or is no object with both school_name and terms
\* (reason "invalid_data"); it sets second_scraper of exactly that school and
\* changes nothing else; when no school qualifies it answers 404 and changes
\* nothing.
C13_InvalidDataSelection ==
    [][output'.op = "invalid_data" =>
        IF output'.status = 200
        THEN /\ output'.school_id \in Schools
             /\ output'.reason \in {"no_data", "invalid_data"}
             /\ output'.reason = QualifiesFor(schools, records, output'.school_id)
             /\ schools' = [schools EXCEPT ![output'.school_id].second_scraper = TRUE]
             /\ records' = records
        ELSE /\ output'.status = 404
             /\ \A s \in Schools : QualifiesFor(schools, records, s) = "none"
             /\ schools' = schools
             /\ records' = records]_vars

\* a school returned for its invalid current record while the other school, which
\* has no record and qualifies as well, keeps second_scraper false
C13_Witness ==
    /\ output.op = "invalid_data"
    /\ output.status = 200
    /\ output.reason = "invalid_data"
    /\ HasRecords(records, output.school_id)
    /\ ~BothKeysCurrent(records, output.school_id)
    /\ schools[output.school_id].second_scraper
    /\ \E s \in Schools \ {output.school_id} :
          QualifiesFor(schools, records, s) = "no_data"

\* the 404 answer is given while a school has records, process true and a website
C13_WitnessNone ==
    /\ output.op = "invalid_data"
    /\ output.status = 404
    /\ \E s \in Schools : schools[s].process /\ schools[s].second_scraper

\* C14: the prompt endpoint returns a school with process false whenever one
\* exists and any school otherwise, sets process of the returned school to true
\* and returns its id with a prompt; it answers 404, changing nothing, only
\* when there is no school at all.
C14_PromptSelection ==
    [][output'.op = "random_prompt" =>
        /\ output'.status = 200
        /\ \E s \in Schools :
              /\ output'.school_id = StrOf(Num(s))
              /\ (\E t \in Schools : ~schools[t].process) => ~schools[s].process
              /\ schools'[s].process
              /\ \A t \in Schools \ {s} : schools'[t] = schools[t]
        /\ records' = records]_vars

\* what the endpoint does instead: it returns a school with process true and
\* second_scraper false whenever one exists, any school otherwise, and writes no
\* flag
C14_PromptAsCoded ==
    [][output'.op = "random_prompt" =>
        /\ output'.status = 200
        /\ \E s \in Schools :
              /\ output'.school_id = StrOf(Num(s))
              /\ (\E t \in Schools : schools[t].process /\ ~schools[t].second_scraper)
                     => (schools[s].process /\ ~schools[s].second_scraper)
        /\ schools' = schools
        /\ records' = records]_vars

(***************************************************************************)
(* Properties of the sweeps                                                *)
(***************************************************************************)
\* the step is a run of the refinement sweep or of the reconciler without its
\* opt-in option, or with --dry-run
RunWithoutOptIn ==
    \/ /\ output'.op = "refine_calendar_data"
       /\ (~input'.save \/ input'.dry_run)
    \/ /\ output'.op = "update_process_status"
       /\ (~input'.update \/ input'.dry_run)

\* C15: a run of the refinement sweep without --save and a run of the
\* reconciler without --update leave every record and every flag of a school
\* unchanged, whatever the data; so does a run given --dry-run together with
\* the opt-in option.
C15_DryRunByDefault ==
    [][RunWithoutOptIn => (records' = records /\ schools' = schools)]_vars

\* a sweep run with --save, --dry-run and --delete-invalid that reports an entry
\* to refine and an entry to delete, and the store still holds both as they were
C15_Witness ==
    /\ output.op = "refine_calendar_data"
    /\ input.save /\ input.dry_run /\ input.delete_invalid
    /\ output.raised = ""
    /\ \E i \in 1..Len(records) :
          records[i].id \in output.refined /\ records[i].data = WrappedDoc
    /\ \E i \in 1..Len(records) :
          records[i].id \in output.invalid /\ records[i].data = Str("doc")

\* a reconciler run without --update that reports a school to promote and a
\* school to demote, and both keep their flag
C15_WitnessReconciler ==
    /\ output.op = "update_process_status"
    /\ ~input.update /\ ~input.dry_run /\ input.set_false
    /\ \E s \in output.to_set_true : ~schools[s].process
    /\ \E s \in output.to_set_false : schools[s].process

\* C17: over any sequence of requests and command runs a school's process flag
\* changes from true to false only in a run of the reconciler that is given
\* --set-false; no POST, prompt or invalid-data request, no refinement or
\* flag-reset sweep and no reconciler run without --set-false sets it to false.
C17_ProcessOneDirectional ==
    [][(\E s \in Schools : schools[s].process /\ ~schools'[s].process) =>
            (output'.op = "update_process_status" /\ input'.set_false)]_vars

\* a reconciler run with --set-false has demoted a school, after a request for
\* a school with invalid data had been answered
C17_Witness ==
    /\ output.op = "update_process_status"
    /\ input.set_false
    /\ output.mode = "UPDATE MODE"
    /\ output.to_set_false # {}
    /\ \A s \in output.to_set_false : ~schools[s].process
    /\ \E s \in output.to_set_false : schools[s].second_scraper

(***************************************************************************)
(* The extractor on texts: a text is a prefix, a body and a suffix          *)
(***************************************************************************)
\* an object that parses and is no calendar
PlainDoc == Obj([extra |-> Num(5)])

Hello == <<Tok("hello"), Tok(" ")>>

TextPrefixes ==
    {<<>>, Hello,
     Hello \o <<Tok("FENCE"), Tok("json"), Tok(" ")>>,
     <<Tok("FENCE"), Tok(" ")>>,
     Hello \o json_dumps(PlainDoc) \o <<Tok(" ")>>,
     <<Tok("{"), Tok(" ")>>}

TextBodies ==
    {json_dumps(CalDoc), json_dumps(FlatDoc), json_dumps(PlainDoc),
     <<Tok("["), Tok("]")>>, <<Tok("null")>>, <<Tok("world")>>,
     <<Tok("{"), Tok("x"), Tok("}")>>, <<>>}

TextSuffixes ==
    {<<>>, <<Tok(" "), Tok("FENCE")>>, <<Tok(" "), Tok("world")>>,
     <<Tok(" "), Tok("FENCE"), Tok(" ")>> \o json_dumps(FlatDoc)}

TextPool == {Text(p \o b \o x) : p \in TextPrefixes, b \in TextBodies, x \in TextSuffixes}

InitText ==
    /\ Idle
    /\ runs = NoRuns
    /\ input \in TextPool
    /\ output = NoOutput

ExtractText ==
    /\ output = NoOutput
    /\ output' = [op |-> "extract", r |-> extract_json_from_text(input)]
    /\ UNCHANGED <<schools, records, clock, input, runs>>

NextText == ExtractText

SpecText == InitText /\ [][NextText]_vars

(***************************************************************************)
(* Properties of the extractor                                             *)
(***************************************************************************)
Blanks(toks, a, b) == \A k \in a..b : IsWs(toks[k])

\* a fenced block: the fence at i, an optional json tag, blanks, an object text
\* from the brace at a to a brace at b, blanks, a fence
IsFencedBlock(toks, i, a, b) ==
    /\ At(toks, i, "FENCE")
    /\ \/ Blanks(toks, i + 1, a - 1)
       \/ At(toks, i + 1, "json") /\ Blanks(toks, i + 2, a - 1)
    /\ At(toks, a, "{")
    /\ At(toks, b, "}")
    /\ \E f \in (b + 1)..Len(toks) : Blanks(toks, b + 1, f - 1) /\ At(toks, f, "FENCE")

Positions(toks, c) == {k \in 1..Len(toks) : At(toks, k, c)}

\* the fenced blocks as <<fence, opening brace, closing brace>>
FencedBlocks(toks) ==
    UNION {UNION {{<<i, a, b>> : b \in {k \in Positions(toks, "}") :
                                           a < k /\ IsFencedBlock(toks, i, a, k)}} :
                  a \in {k \in Positions(toks, "{") : i < k}} :
           i \in Positions(toks, "FENCE")}

\* the leftmost fenced block with its shortest object text
FirstFencedBlock(toks) ==
    CHOOSE blk \in FencedBlocks(toks) :
        \A other \in FencedBlocks(toks) :
            \/ blk[1] < other[1]
            \/ blk[1] = other[1] /\ blk[3] <= other[3]

\* the braces open at position k, counted from position a
RECURSIVE BraceDepth(_, _, _)
BraceDepth(toks, a, k) ==
    IF k < a THEN 0
    ELSE BraceDepth(toks, a, k - 1)
            + (IF At(toks, k, "{") THEN 1 ELSE IF At(toks, k, "}") THEN -1 ELSE 0)

\* a brace-delimited substring: from an opening brace to the brace that closes
\* it, with at most one level of braces nested in it
BraceDelimited(toks, a, b) ==
    /\ a < b
    /\ At(toks, a, "{")
    /\ At(toks, b, "}")
    /\ BraceDepth(toks, a, b) = 0
    /\ \A k \in a..(b - 1) : BraceDepth(toks, a, k) \in {1, 2}

BraceSubstrings(toks) ==
    UNION {{<<a, b>> : b \in {k \in Positions(toks, "}") : BraceDelimited(toks, a, k)}} :
           a \in Positions(toks, "{")}

\* the candidates of the scan: the substrings that lie in no other one
Candidates(toks) ==
    {c \in BraceSubstrings(toks) :
        ~\E d \in BraceSubstrings(toks) : d[1] < c[1] /\ c[2] < d[2]}

IsCalendarText(toks, c) ==
    /\ json_loads(Slice(toks, c[1], c[2])).ok
    /\ IsDict(json_loads(Slice(toks, c[1], c[2])).v)
    /\ {"school_name", "terms"} \subseteq Keys(json_loads(Slice(toks, c[1], c[2])).v)

CalendarCandidates(toks) == {c \in Candidates(toks) : IsCalendarText(toks, c)}

FirstCalendarCandidate(toks) ==
    CHOOSE c \in CalendarCandidates(toks) :
        \A d \in CalendarCandidates(toks) : c[1] <= d[1]

FencedParses(toks) ==
    /\ FencedBlocks(toks) # {}
    /\ json_loads(Slice(toks, FirstFencedBlock(toks)[2], FirstFencedBlock(toks)[3])).ok

\* the strategy that succeeds first on the text: 1, 2 or 3, or 0 when none does
Strategy(toks) ==
    IF json_loads(toks).ok THEN 1
    ELSE IF FencedParses(toks) THEN 2
    ELSE IF CalendarCandidates(toks) # {} THEN 3
    ELSE 0

NotFound == Null

ExpectedExtract(toks) ==
    IF json_loads(toks).ok THEN json_loads(toks).v
    ELSE IF FencedParses(toks)
    THEN json_loads(Slice(toks, FirstFencedBlock(toks)[2], FirstFencedBlock(toks)[3])).v
    ELSE IF CalendarCandidates(toks) # {}
    THEN json_loads(Slice(toks, FirstCalendarCandidate(toks)[1],
                          FirstCalendarCandidate(toks)[2])).v
    ELSE NotFound

\* C16: extract returns the result of the first of three strategies that
\* succeeds: the whole text parsed as JSON, of any shape; the first fenced block
\* (optionally tagged json) holding a brace-delimited object, if it parses,
\* whatever its keys; the first brace-delimited substring in text order (the
\* pattern nests braces one level deep) that parses to an object with both
\* school_name and terms.  It returns NotFound when none succeeds and raises on
\* no text; "hello world" gives NotFound.
C16_ExtractStrategies ==
    output.op = "extract" =>
        /\ ~Raised(output.r)
        /\ output.r = ExpectedExtract(input.s)
        /\ input = Text(<<Tok("hello"), Tok(" "), Tok("world")>>) => output.r = NotFound

\* a fenced object without the calendar keys is returned although a calendar
\* follows it in the text
C16_Witness ==
    /\ output.op = "extract"
    /\ Strategy(input.s) = 2
    /\ output.r = PlainDoc
    /\ CalendarCandidates(input.s) # {}

\* the third strategy passes over a substring that parses to an object without
\* the keys and returns the calendar after it
C16_WitnessThird ==
    /\ output.op = "extract"
    /\ Strategy(input.s) = 3
    /\ output.r = FlatDoc
    /\ \E c \in Candidates(input.s) :
          /\ c[1] < FirstCalendarCandidate(input.s)[1]
          /\ json_loads(Slice(input.s, c[1], c[2])).ok

\* no strategy succeeds on a text that holds a calendar nested three levels deep
C16_WitnessDeep ==
    /\ output.op = "extract"
    /\ output.r = NotFound
    /\ input = Text(Hello \o json_dumps(CalDoc))

(***************************************************************************)
(* Properties of the calendar CSV export                                   *)
(***************************************************************************)
\* the terms of the school's current record when it is in calendar format
CurrentTerms(recs, s) ==
    {recs[i].data.o.terms.l : i \in {j \in 1..Len(recs) :
        /\ recs[j].school = s
        /\ IsCurrent(recs, j)
        /\ IsDict(recs[j].data)
        /\ {"school_name", "terms"} \subseteq Keys(recs[j].data)}}

\* M: the maximum number of terms over the current calendar-format records
MaxTermCount(recs) ==
    CHOOSE n \in 0..MaxTerms :
        /\ \A s \in Schools : \A terms \in CurrentTerms(recs, s) : Len(terms) <= n
        /\ n = 0 \/ \E s \in Schools : \E terms \in CurrentTerms(recs, s) : Len(terms) = n

FixedColumns ==
    <<"school_id", "school_name", "address", "latitude", "longitude", "contact_detail">>

\* the cells of a row: the id, the name, the four cells of the school's
\* information and a triple for each term
RowLength(row) == 2 + Cardinality(DOMAIN row.info) + 3 * Len(row.terms)

\* C18: the export has at most one row per school; its header is the 6 fixed
\* columns and a term/date/detail triple for each index 1..M, M the maximum
\* number of terms over the current calendar-format records; every row has as
\* many cells as the header, a school with fewer than M terms being filled up
\* with empty triples; a school whose current record is not in calendar format
\* has no row unless include-invalid is set.
C18_ExportShape ==
    output.op = "export_calendar_csv" =>
        /\ \A i, j \in 1..Len(output.rows) :
              output.rows[i].school_id = output.rows[j].school_id => i = j
        /\ Len(output.headers) = 6 + 3 * MaxTermCount(records)
        /\ \A k \in 1..6 : output.headers[k].name = FixedColumns[k]
        /\ \A i \in 1..MaxTermCount(records) :
              /\ output.headers[6 + 3 * i - 2] = Column("term_", i)
              /\ output.headers[6 + 3 * i - 1] = Column("date_", i)
              /\ output.headers[6 + 3 * i].name = "nt_detail"
        /\ \A i \in 1..Len(output.rows) :
              /\ RowLength(output.rows[i]) = Len(output.headers)
              /\ \A terms \in CurrentTerms(records, output.rows[i].school_id) :
                    \A k \in (Len(terms) + 1)..MaxTermCount(records) :
                        output.rows[i].terms[k] = EmptyCells
        /\ {output.rows[i].school_id : i \in 1..Len(output.rows)} =
              {s \in Schools : output.include_invalid \/ CurrentTerms(records, s) # {}}

\* an export with a term triple: the row of a school with a term, and the row of
\* a school with a calendar without terms, filled up with an empty triple
C18_Witness ==
    /\ output.op = "export_calendar_csv"
    /\ ~output.include_invalid
    /\ Len(output.headers) = 9
    /\ Len(output.rows) = 2
    /\ \E i \in 1..2 :
          /\ CurrentTerms(records, output.rows[i].school_id) = {<<>>}
          /\ output.rows[i].terms = <<EmptyCells>>
    /\ \E i \in 1..2 : output.rows[i].terms # <<EmptyCells>>

\* an export with a term triple that leaves out a school whose current record
\* is not in calendar format
C18_WitnessOmitted ==
    /\ output.op = "export_calendar_csv"
    /\ ~output.include_invalid
    /\ Len(output.headers) = 9
    /\ Len(output.rows) = 1
    /\ \E s \in Schools : HasRecords(records, s) /\ CurrentTerms(records, s) = {}

(***************************************************************************)
(* Properties of the order of the validator's checks                       *)
(***************************************************************************)
\* the reason of the first check that the term fails by itself; "" when none
TermCheckReason(term) ==
    IF ~IsDict(term) THEN "Term must be a dictionary"
    ELSE IF ~({"academic_year", "term_name", "events"} \subseteq Keys(term))
    THEN "Term missing required fields"
    ELSE IF ~IsList(term.o.events) THEN "Events must be a list"
    ELSE ""

EventCheckReason(e) ==
    IF ~IsDict(e) THEN "Event must be a dictionary"
    ELSE IF "start_date" \notin Keys(e) THEN "Event missing required field: start_date"
    ELSE IF "event_text" \notin Keys(e) THEN "Event missing required field: event_text"
    ELSE ""

BadEvents(term) ==
    {j \in 1..Len(term.o.events.l) : EventCheckReason(term.o.events.l[j]) # ""}

\* the reason of the first check that fails in the term or in its events
TermReason(term) ==
    IF TermCheckReason(term) # "" THEN TermCheckReason(term)
    ELSE IF BadEvents(term) # {}
    THEN EventCheckReason(term.o.events.l[Least(BadEvents(term))])
    ELSE ""

BadTerms(terms) == {i \in 1..Len(terms) : TermCheckReason(terms[i]) # ""}

FailingTerms(terms) == {i \in 1..Len(terms) : TermReason(terms[i]) # ""}

\* the first term passes its own checks and holds a bad event, a later term fails
\* a check of its own
BadEventBeforeBadTerm(doc) ==
    /\ ExpectedTopReason(doc) = ""
    /\ TermCheckReason(doc.o.terms.l[1]) = ""
    /\ BadEvents(doc.o.terms.l[1]) # {}
    /\ BadTerms(doc.o.terms.l) # {}

\* C19 as stated: the checks of every term come before any check of an event;
\* for a document whose first term is well-formed but holds a bad event and
\* whose later term fails a term-level check the reason is the term-level one.
C19_Original ==
    (output.op = "validate" /\ BadEventBeforeBadTerm(input)) =>
        output.r.reason = TermCheckReason(input.o.terms.l[Least(BadTerms(input.o.terms.l))])

\* C19: validate goes through the terms in order and checks each term and then
\* its events before it looks at the next term: the reason reported is the one
\* of the first failing check in document order, which for a document whose
\* first term is well-formed but holds a bad event is the event-level one,
\* whatever the later terms are.
C19_DocumentOrder ==
    (output.op = "validate" /\ ExpectedTopReason(input) = "") =>
        /\ output.r.reason =
              (IF FailingTerms(input.o.terms.l) = {} THEN "Valid"
               ELSE TermReason(input.o.terms.l[Least(FailingTerms(input.o.terms.l))]))
        /\ BadEventBeforeBadTerm(input) =>
              output.r.reason =
                  EventCheckReason(input.o.terms.l[1].o.events.l[
                                       Least(BadEvents(input.o.terms.l[1]))])

\* the event-level reason is reported for a document whose second term is no
\* object
C19_Witness ==
    /\ output.op = "validate"
    /\ BadEventBeforeBadTerm(input)
    /\ ~IsDict(input.o.terms.l[2])
    /\ output.r.reason = "Event missing required field: event_text"

(***************************************************************************)
(* Properties of the refiner's report on what the extractor returns        *)
(***************************************************************************)
\* the text that the dispatch hands to the extractor
DispatchedText(p) ==
    IF "text" \in Keys(p) THEN p.o.text
    ELSE IF "raw" \in Keys(p) THEN p.o.raw
    ELSE p.o[CHOOSE key \in Keys(p) : TRUE]

\* a payload that holds its document as a text, under text, raw or its only key
TextPayload(p) ==
    /\ IsDict(p)
    /\ ~BothKeys(p)
    /\ "text" \in Keys(p) \/ "raw" \in Keys(p) \/ SingleString(p)
    /\ IsStr(DispatchedText(p))

CouldNotExtract == Rejected(<<"Could not extract JSON">>)

\* the report on a value that the validator is given
Validated(candidate) ==
    IF ValidShape(candidate) THEN Refined(refine_data(candidate))
    ELSE Rejected(<<"Invalid format: ", validate_calendar_format(candidate).reason>>)

\* the report on what the extractor returns, NotFound being None
ReportOn(extracted) ==
    IF ~Truthy(extracted) THEN CouldNotExtract ELSE Validated(extracted)

C20_WitnessValidated ==
    /\ output.op = "refine"
    /\ TextPayload(input)
    /\ Strategy(DispatchedText(input).s) = 1
    /\ IsList(ExpectedExtract(DispatchedText(input).s))
    /\ output.r = Rejected(<<"Invalid format: ", "Not a dictionary">>)

(***************************************************************************)
(* The refinement sweep, record by record                                  *)
(***************************************************************************)
\* the records without the one at position i
WithoutRecord(recs, i) == SubSeq(recs, 1, i - 1) \o SubSeq(recs, i + 1, Len(recs))

\* what a sweep over recs reports for the record with the given id: "refined",
\* "invalid", or "aborted" when the loop raises before the report is printed
ReportedOutcome(recs, id) ==
    IF SweepRaises(SweepResults(recs)) # {} THEN "aborted"
    ELSE IF id \in EntryIds(recs, refined_entries(SweepResults(recs))) THEN "refined"
    ELSE IF id \in EntryIds(recs, invalid_entries(SweepResults(recs))) THEN "invalid"
    ELSE "none"

\* the outcome that the run observed in output' gives the record with the id
ObservedOutcome(out, id) ==
    IF out.raised # "" THEN "aborted"
    ELSE IF id \in out.refined THEN "refined"
    ELSE IF id \in out.invalid THEN "invalid"
    ELSE "none"

\* a payload whose text (or, without a text, raw) value is truthy and no string
TextIsNoString(data) ==
    /\ IsDict(data)
    /\ ~(In("school_name", data) /\ In("terms", data))
    /\ \/ In("text", data) /\ Truthy(data.o.text) /\ ~IsStr(data.o.text)
       \/ ~In("text", data) /\ In("raw", data) /\ Truthy(data.o.raw) /\ ~IsStr(data.o.raw)

\* C21: every run of the refinement sweep runs to completion, reports every
\* record as refined or as invalid with a reason, and gives every other record
\* the outcome that a sweep without the record would give it.
C21_SweepIndependent ==
    [][output'.op = "refine_calendar_data" =>
          /\ output'.raised = ""
          /\ \A i \in 1..Len(records) :
                /\ ObservedOutcome(output', records[i].id) \in {"refined", "invalid"}
                /\ \A j \in 1..Len(records) \ {i} :
                      ObservedOutcome(output', records[j].id)
                          = ReportedOutcome(WithoutRecord(records, i), records[j].id)]_vars

\* C21, as the code stands: the sweep is record by record as long as no record
\* holds a text that is no string; with such a record the run ends with a
\* TypeError, reports no record and leaves the store as it was.
C21_IndependentUnlessRaised ==
    [][output'.op = "refine_calendar_data" =>
          IF \E i \in 1..Len(records) : TextIsNoString(records[i].data)
          THEN output'.raised = "TypeError" /\ StoreUnchanged
          ELSE /\ output'.raised = ""
               /\ \A i \in 1..Len(records) :
                     /\ ObservedOutcome(output', records[i].id) \in {"refined", "invalid"}
                     /\ \A j \in 1..Len(records) \ {i} :
                           ObservedOutcome(output', records[j].id)
                               = ReportedOutcome(WithoutRecord(records, i),
                                                 records[j].id)]_vars

\* a run that ended with the exception although another record is a calendar
C21_WitnessAborted ==
    /\ output.op = "refine_calendar_data"
    /\ output.raised = "TypeError"
    /\ \E i \in 1..Len(records) : records[i].data = NoTextDoc
    /\ \E j \in 1..Len(records) : refine_record(records[j].data).k = "refined"

(***************************************************************************)
(* The refinement sweep step by step, on a store whose writes can fail.    *)
(* The run holds the command's local variables: the queryset it iterates   *)
(* (newest record first), its position in it, the two lists and the count  *)
(* of saved entries; before is the store as transaction.atomic() found it. *)
(***************************************************************************)
SweepIdle == [pc |-> "idle"]

\* SchoolData.objects.select_related('school').all() in the order of Meta.ordering
all_school_data(recs) == [k \in 1..Len(recs) |-> recs[Len(recs) + 1 - k]]

StartedSweep(recs, dry_run, delete_invalid) ==
    [pc |-> "loop", dry_run |-> dry_run, delete_invalid |-> delete_invalid,
     all_school_data |-> all_school_data(recs), next |-> 1,
     refined_entries |-> {}, invalid_entries |-> {}, processed_count |-> 0,
     before |-> recs]

\* the exception leaves the atomic block without a rollback
Rollback_none(recs, before) == recs

\* an exception that leaves the atomic block: the writes of the block are undone
Rollback(recs, before) == before

\* the refined payload is written to the records of every school
SavedEntry_every_record(recs, id, refined_data) ==
    [i \in 1..Len(recs) |-> [recs[i] EXCEPT !.data = refined_data]]

\* school_data.data = refined_data; school_data.save()
SavedEntry(recs, id, refined_data) ==
    [i \in 1..Len(recs) |->
        IF recs[i].id = id THEN [recs[i] EXCEPT !.data = refined_data] ELSE recs[i]]

SweepStart ==
    /\ runs.pc = "idle"
    /\ \E dry_run \in BOOLEAN, save \in BOOLEAN, delete_invalid \in BOOLEAN :
          /\ input' = [t |-> "options", dry_run |-> dry_run, save |-> save,
                       delete_invalid |-> delete_invalid]
          /\ runs' = StartedSweep(records, DryRunMode(dry_run, save), delete_invalid)
    /\ output' = NoOutput
    /\ UNCHANGED <<schools, records, clock>>

\* the exception e leaves the loop, the atomic block and the command
SweepAborted(e) ==
    /\ records' = Rollback(records, runs.before)
    /\ runs' = [runs EXCEPT !.pc = "raised"]
    /\ output' = [op |-> "refine_calendar_data", raised |-> e]
    /\ UNCHANGED <<schools, clock, input>>

\* the loop body for the entry; saved tells whether its save() succeeds
SweepEntry(school_data, r, saved) ==
    IF r.k = "raise" THEN SweepAborted(r.e)
    ELSE IF r.k = "invalid"
    THEN /\ runs' = [runs EXCEPT !.next = @ + 1,
                                 !.invalid_entries = @ \cup {school_data.id}]
         /\ UNCHANGED <<schools, records, clock, input, output>>
    ELSE IF r.k = "refined" /\ runs.dry_run
    THEN /\ runs' = [runs EXCEPT !.next = @ + 1,
                                 !.refined_entries = @ \cup {school_data.id}]
         /\ UNCHANGED <<schools, records, clock, input, output>>
    ELSE IF r.k = "refined" /\ saved
    THEN /\ records' = SavedEntry(records, school_data.id, r.data)
         /\ runs' = [runs EXCEPT !.next = @ + 1,
                                 !.refined_entries = @ \cup {school_data.id},
                                 !.processed_count = @ + 1]
         /\ UNCHANGED <<schools, clock, input, output>>
    ELSE IF r.k = "refined" THEN SweepAborted("DatabaseError")
    ELSE /\ runs' = [runs EXCEPT !.next = @ + 1]
         /\ UNCHANGED <<schools, records, clock, input, output>>

SweepVisit ==
    /\ runs.pc = "loop"
    /\ runs.next <= Len(runs.all_school_data)
    /\ \E saved \in BOOLEAN :
          SweepEntry(runs.all_school_data[runs.next],
                     refine_record(runs.all_school_data[runs.next].data), saved)

\* the end of the loop commits; the report, and the deletion of the invalid
\* entries one by one, each in its own try block: failed are the deletions
\* that raise
SweepFinish ==
    /\ runs.pc = "loop"
    /\ runs.next > Len(runs.all_school_data)
    /\ \E confirm \in IF runs.invalid_entries # {} /\ runs.delete_invalid /\ ~runs.dry_run
                      THEN BOOLEAN ELSE {FALSE} :
          \E failed \in SUBSET (IF confirm THEN runs.invalid_entries ELSE {}) :
             /\ records' = IF confirm
                           THEN SweepDeleted(records, runs.invalid_entries \ failed)
                           ELSE records
             /\ output' = [op |-> "refine_calendar_data", raised |-> "",
                           mode |-> IF runs.dry_run THEN "DRY RUN" ELSE "SAVE MODE",
                           refined |-> runs.refined_entries,
                           invalid |-> runs.invalid_entries,
                           deleted |-> confirm]
    /\ runs' = [runs EXCEPT !.pc = "done"]
    /\ UNCHANGED <<schools, clock, input>>

\* the command's process ends
SweepExit ==
    /\ runs.pc \in {"done", "raised"}
    /\ runs' = SweepIdle
    /\ UNCHANGED <<schools, records, clock, input, output>>

\* records are entered while no sweep is under way
SweepIdleAdd ==
    /\ runs.pc = "idle"
    /\ AdminAddRecord

InitSweep ==
    /\ Imported
    /\ runs = SweepIdle
    /\ input = NoInput
    /\ output = NoOutput

NextSweep == SweepIdleAdd \/ SweepStart \/ SweepVisit \/ SweepFinish \/ SweepExit

SpecSweep == InitSweep /\ [][NextSweep]_vars

\* the payload that the store recs holds for the record id
PayloadOf(recs, id) == recs[CHOOSE i \in 1..Len(recs) : recs[i].id = id].data

\* C22: a sweep in save mode is all or nothing.  After a run that ended with an
\* exception the store is as it was before the run; after a run that reached
\* its end every accepted record holds its refined payload and every other
\* record that is still there holds the payload it had.
C22_SweepAllOrNothing ==
    /\ runs.pc = "raised" => records = runs.before
    /\ runs.pc = "done" /\ ~runs.dry_run =>
          \A i \in 1..Len(runs.before) :
             LET id == runs.before[i].id IN
             IF refine_record(runs.before[i].data).k = "refined"
             THEN /\ id \in runs.refined_entries
                  /\ PayloadOf(records, id) = refine_record(runs.before[i].data).data
             ELSE \A j \in 1..Len(records) :
                     records[j].id = id => records[j].data = runs.before[i].data

\* a run that failed after it had saved an entry whose payload the save changed
C22_Witness ==
    /\ runs.pc = "raised"
    /\ runs.processed_count > 0
    /\ \E k \in 1..(runs.next - 1) :
          /\ refine_record(runs.all_school_data[k].data).k = "refined"
          /\ refine_record(runs.all_school_data[k].data).data
                 # runs.all_school_data[k].data

\* a run in save mode that reached its end and changed a payload
C22_WitnessCommitted ==
    /\ runs.pc = "done"
    /\ ~runs.dry_run
    /\ records # runs.before
    /\ runs.refined_entries # {}

(***************************************************************************)
(* Two requests to the selection endpoints at the same time.  Each request *)
(* is taken query by query: runs holds, for each of the two, its position  *)
(* and the instances it has read.  A saved instance writes the fields as   *)
(* the request read them.                                                  *)
(***************************************************************************)
Requests == {"a", "b"}

RequestIdle == [pc |-> "idle"]

\* the entries {'school': school, 'reason': reason} collected from the store
CollectedInvalid(sch, recs) ==
    [s \in valid_schools(sch, recs) |->
        [school |-> sch[s], reason |-> InvalidReason(recs, s)]]

\* the choice is made among the collected schools that still wait in the store
ChoosableInvalid_rechecked(collected, sch) ==
    {s \in DOMAIN collected : ~sch[s].second_scraper}

\* random.choice(valid_schools): any school of the list as it was collected
ChoosableInvalid(collected, sch) == DOMAIN collected

\* list(schools) with its prefetch, and the loop that collects valid_schools
InvalidDataRead(p) ==
    /\ runs[p].pc = "idle"
    /\ runs' = [runs EXCEPT ![p] = [pc |-> "read", op |-> "invalid_data",
                                    valid_schools |-> CollectedInvalid(schools, records)]]
    /\ UNCHANGED <<schools, records, clock, input, output>>

\* the choice, save(update_fields=['second_scraper']) and the response
InvalidDataRespond(p) ==
    /\ runs[p].pc = "read"
    /\ runs[p].op = "invalid_data"
    /\ IF ChoosableInvalid(runs[p].valid_schools, schools) = {}
       THEN /\ output' = Response("invalid_data", 404, "No school found with invalid data")
            /\ UNCHANGED schools
       ELSE \E s \in ChoosableInvalid(runs[p].valid_schools, schools) :
               /\ schools' = [schools EXCEPT ![s].second_scraper = TRUE]
               /\ output' = [op |-> "invalid_data", status |-> 200, school_id |-> s,
                             website |-> Strip(runs[p].valid_schools[s].school.website.s),
                             reason |-> runs[p].valid_schools[s].reason]
    /\ runs' = [runs EXCEPT ![p] = [pc |-> "done", op |-> "invalid_data",
                                    response |-> output']]
    /\ UNCHANGED <<records, clock, input>>

\* schools_not_processed.exists(): which queryset the request goes on with
PromptExists(p) ==
    /\ runs[p].pc = "idle"
    /\ runs' = [runs EXCEPT ![p] = [pc |-> "exists", op |-> "random_prompt",
                                    filtered |-> schools_not_processed(schools) # {}]]
    /\ UNCHANGED <<schools, records, clock, input, output>>

\* the queryset of the request, evaluated on the store as it is now
PromptQuery(filtered, sch) == IF filtered THEN schools_not_processed(sch) ELSE Schools

\* schools_with_data.exists(): 404 when the queryset has become empty
PromptExistsAgain(p) ==
    /\ runs[p].pc = "exists"
    /\ IF PromptQuery(runs[p].filtered, schools) = {}
       THEN /\ output' = Response("random_prompt", 404, "No schools found in database")
            /\ runs' = [runs EXCEPT ![p] = [pc |-> "done", op |-> "random_prompt",
                                            response |-> output']]
       ELSE /\ runs' = [runs EXCEPT ![p].pc = "list"]
            /\ UNCHANGED output
    /\ UNCHANGED <<schools, records, clock, input>>

\* list(schools_with_data): the instances with their fields as they are now
PromptRead(p) ==
    /\ runs[p].pc = "list"
    /\ runs' = [runs EXCEPT ![p] =
                  [pc |-> "read", op |-> "random_prompt",
                   schools_with_data |->
                       [s \in PromptQuery(runs[p].filtered, schools) |-> schools[s]]]]
    /\ UNCHANGED <<schools, records, clock, input, output>>

\* random.choice of the list (IndexError on an empty list); third_scraper is no
\* field of School, so random_school.save() writes every field as it was read
PromptRespond(p) ==
    /\ runs[p].pc = "read"
    /\ runs[p].op = "random_prompt"
    /\ IF DOMAIN runs[p].schools_with_data = {}
       THEN /\ output' = Response("random_prompt", 500, "IndexError")
            /\ UNCHANGED schools
       ELSE \E random_school \in DOMAIN runs[p].schools_with_data :
               /\ schools' = [schools EXCEPT
                                ![random_school] = runs[p].schools_with_data[random_school]]
               /\ output' = [op |-> "random_prompt", status |-> 200,
                             school_id |-> StrOf(Num(random_school)),
                             url |-> website_url(
                                        runs[p].schools_with_data[random_school].website)]
    /\ runs' = [runs EXCEPT ![p] = [pc |-> "done", op |-> "random_prompt",
                                    response |-> output']]
    /\ UNCHANGED <<records, clock, input>>

\* records are entered before the two requests arrive
RaceIdleAdd ==
    /\ \A p \in Requests : runs[p].pc = "idle"
    /\ AdminAddRecord

InitRace ==
    /\ Imported
    /\ runs = [p \in Requests |-> RequestIdle]
    /\ input = NoInput
    /\ output = NoOutput

NextRace ==
    \/ RaceIdleAdd
    \/ \E p \in Requests :
          \/ InvalidDataRead(p)
          \/ InvalidDataRespond(p)
          \/ PromptExists(p)
          \/ PromptExistsAgain(p)
          \/ PromptRead(p)
          \/ PromptRespond(p)

SpecRace == InitRace /\ [][NextRace]_vars

\* the step in which the request p answers
Answers(p) == runs[p].pc = "read" /\ runs'[p].pc = "done"

\* only the second_scraper flag of school s is written, and it is set
OnlyFlagSet(s) ==
    schools' = [schools EXCEPT ![s].second_scraper = TRUE]

\* C24: the selection endpoints select and then flip without atomicity.  A
\* request answers with a school of the list it read, whatever has been written
\* since: an invalid-data request that collected a school answers 200 with one
\* of the collected schools and sets its flag, a prompt request that listed a
\* school answers 200 with one of the listed schools.  Two requests that read
\* the same school before either writes can so both answer with it.
C24_SelectThenFlip ==
    [][\A p \in Requests :
          Answers(p) =>
             /\ runs'[p].response = output'
             /\ records' = records
             /\ IF runs[p].op = "invalid_data"
                THEN IF DOMAIN runs[p].valid_schools = {}
                     THEN output'.status = 404 /\ schools' = schools
                     ELSE /\ output'.status = 200
                          /\ output'.school_id \in DOMAIN runs[p].valid_schools
                          /\ OnlyFlagSet(output'.school_id)
                ELSE IF DOMAIN runs[p].schools_with_data = {}
                     THEN output'.status = 500 /\ schools' = schools
                     ELSE /\ output'.status = 200
                          /\ \E s \in DOMAIN runs[p].schools_with_data :
                                output'.school_id = StrOf(Num(s))]_vars

\* both invalid-data requests have answered 200 with the same school
C24_Witness ==
    /\ \A p \in Requests :
          /\ runs[p].pc = "done"
          /\ runs[p].op = "invalid_data"
          /\ runs[p].response.status = 200
    /\ runs["a"].response.school_id = runs["b"].response.school_id

\* both requests have collected the same school and neither has written
C24_WitnessBothRead ==
    /\ \A p \in Requests : runs[p].pc = "read" /\ runs[p].op = "invalid_data"
    /\ DOMAIN runs["a"].valid_schools \cap DOMAIN runs["b"].valid_schools # {}

\* both prompt requests have answered 200 with the same school that waited
C24_WitnessPrompt ==
    /\ \A p \in Requests :
          /\ runs[p].pc = "done"
          /\ runs[p].op = "random_prompt"
          /\ runs[p].response.status = 200
    /\ runs["a"].response.school_id = runs["b"].response.school_id
    /\ \E s \in Schools : schools[s].process /\ ~schools[s].second_scraper

(***************************************************************************)
(* The process-flag reconciler step by step, on a store whose writes can   *)
(* fail and that the invalid-data endpoint writes at the same time.  The   *)
(* run holds the command's local variables: the instances to write, each   *)
(* with its fields as the loop read them, and the two counts.              *)
(***************************************************************************)
UpdateIdle == [pc |-> "idle"]

\* the schools of S in the order of School.objects.all()
InOrder(S) == SelectSeq(SchoolOrder, LAMBDA s : s \in S)

\* the instances of the schools of S as the loop read them, with the value of
\* process that the run is to give them
Instances(sch, S, process) ==
    [k \in 1..Len(InOrder(S)) |->
        [urn |-> InOrder(S)[k], school |-> sch[InOrder(S)[k]], process |-> process]]

\* school.process = ...; school.save(): every field of the instance is written
SavedSchool(sch, entry) ==
    [sch EXCEPT ![entry.urn] = [entry.school EXCEPT !.process = entry.process]]

\* the analysis loop of lines 73-97 and the report; a dry run ends here
UpdateStart ==
    /\ runs.pc = "idle"
    /\ \E dry_run \in BOOLEAN, update \in BOOLEAN, set_false \in BOOLEAN :
          /\ input' = [t |-> "options", dry_run |-> dry_run, update |-> update,
                       set_false |-> set_false]
          /\ output' = [op |-> "update_process_status",
                        mode |-> IF DryRunMode(dry_run, update) THEN "DRY RUN"
                                 ELSE "UPDATE MODE",
                        set_false |-> set_false,
                        to_set_true |-> schools_to_set_true(schools, records),
                        to_set_false |-> schools_to_set_false(schools, records, set_false),
                        already_correct |-> schools_already_correct(schools, records)]
          /\ runs' = [pc |-> IF DryRunMode(dry_run, update) THEN "done" ELSE "update",
                      dry_run |-> DryRunMode(dry_run, update),
                      set_false |-> set_false,
                      read |-> schools,
                      schools_to_set_true |->
                          Instances(schools, schools_to_set_true(schools, records), TRUE),
                      schools_to_set_false |->
                          Instances(schools,
                                    schools_to_set_false(schools, records, set_false),
                                    FALSE),
                      written |-> 0,
                      updated_true_count |-> 0, updated_false_count |-> 0]
    /\ UNCHANGED <<schools, records, clock>>

\* the instances in the order the two loops of lines 159-183 write them
ToWrite(run) == run.schools_to_set_true \o run.schools_to_set_false

\* one pass of a write loop: the save succeeds, or raises and is reported
UpdateWrite ==
    /\ runs.pc = "update"
    /\ runs.written < Len(ToWrite(runs))
    /\ \E saved \in BOOLEAN :
          LET entry == ToWrite(runs)[runs.written + 1] IN
          IF saved
          THEN /\ schools' = SavedSchool(schools, entry)
               /\ runs' = [runs EXCEPT
                             !.written = @ + 1,
                             !.updated_true_count = IF entry.process THEN @ + 1 ELSE @,
                             !.updated_false_count = IF entry.process THEN @ ELSE @ + 1]
          ELSE /\ runs' = [runs EXCEPT !.written = @ + 1]
               /\ UNCHANGED schools
    /\ UNCHANGED <<records, clock, input, output>>

\* the counts of lines 185-195
UpdateFinish ==
    /\ runs.pc = "update"
    /\ runs.written = Len(ToWrite(runs))
    /\ runs' = [runs EXCEPT !.pc = "done"]
    /\ output' = [op |-> "update_process_status", mode |-> "UPDATE MODE",
                  set_false |-> runs.set_false,
                  updated_true_count |-> runs.updated_true_count,
                  updated_false_count |-> runs.updated_false_count]
    /\ UNCHANGED <<schools, records, clock, input>>

\* the command's process ends
UpdateExit ==
    /\ runs.pc = "done"
    /\ runs' = UpdateIdle
    /\ UNCHANGED <<schools, records, clock, input, output>>

\* records are entered while no run is under way
UpdateIdleAdd ==
    /\ runs.pc = "idle"
    /\ AdminAddRecord

InitReconcile ==
    /\ Imported
    /\ runs = UpdateIdle
    /\ input = NoInput
    /\ output = NoOutput

NextReconcile ==
    \/ UpdateIdleAdd
    \/ UpdateStart
    \/ UpdateWrite
    \/ UpdateFinish
    \/ UpdateExit
    \/ get_schools_with_invalid_data

SpecReconcile == InitReconcile /\ [][NextReconcile]_vars

\* the schools that the run set out to write
Flips(run) == {ToWrite(run)[k].urn : k \in 1..Len(ToWrite(run))}

\* the schools of the run whose process flag has the value the run computed
Flipped(run, sch) ==
    {ToWrite(run)[k].urn : k \in {j \in 1..Len(ToWrite(run)) :
                                     sch[ToWrite(run)[j].urn].process
                                         = ToWrite(run)[j].process}}

\* C23: an update-mode run of the reconciler is one transaction: when it has
\* ended, every school of the promote and demote sets has its flag flipped, or
\* none has.
C23_AllOrNothing ==
    runs.pc = "done" /\ ~runs.dry_run =>
        Flipped(runs, schools) \in {Flips(runs), {}}

\* C23, as the code stands: every write is on its own.  When the run has ended
\* the flipped schools are as many as the two counts say, any number between
\* none and all of them, and no other school's process flag has changed.
C23_EachWriteAlone ==
    runs.pc = "done" /\ ~runs.dry_run =>
        /\ Cardinality(Flipped(runs, schools))
              = runs.updated_true_count + runs.updated_false_count
        /\ \A s \in Schools \ Flips(runs) : schools[s].process = runs.read[s].process

\* a run that has ended with one of its two flips made
C23_WitnessPartial ==
    /\ runs.pc = "done"
    /\ ~runs.dry_run
    /\ Cardinality(Flips(runs)) = 2
    /\ Cardinality(Flipped(runs, schools)) = 1

\* the step in which the run saves the instance of its next school
RunSaves ==
    /\ runs.pc = "update"
    /\ runs'.pc = "update"
    /\ runs'.written = runs.written + 1
    /\ runs'.updated_true_count + runs'.updated_false_count
          = runs.updated_true_count + runs.updated_false_count + 1

\* the instance that the run writes next
NextEntry == ToWrite(runs)[runs.written + 1]

\* C29: a write of the reconciler changes the process flag of its school and
\* nothing else; a second_scraper flag that the invalid-data endpoint has set
\* since the run read the school is still set after the write.
C29_WriteOnlyProcess ==
    [][RunSaves =>
          schools' = [schools EXCEPT ![NextEntry.urn].process = NextEntry.process]]_vars

\* C29, as the code stands: the write gives the school every field as the run
\* read it, with the computed process flag, and leaves the other schools alone.
C29_WriteAsRead ==
    [][RunSaves =>
          schools' = [schools EXCEPT
                        ![NextEntry.urn] = [runs.read[NextEntry.urn] EXCEPT
                                               !.process = NextEntry.process]]]_vars

\* the endpoint has handed out a school since the run read it, and the run's
\* write has taken the flag back
C29_WitnessLostUpdate ==
    /\ runs.pc = "update"
    /\ runs.written > 0
    /\ output.op = "invalid_data"
    /\ output.status = 200
    /\ output.school_id \in Flips(runs)
    /\ ~runs.read[output.school_id].second_scraper
    /\ ~schools[output.school_id].second_scraper

\* the record of the store recs with the given id is there
HasEntry(recs, id) == \E i \in 1..Len(recs) : recs[i].id = id

\* C25: after a sweep in save mode without --delete-invalid that reached its
\* end, every record is either a rejected one with the payload it had, or an
\* accepted one whose payload is a normalised document that the validator
\* accepts and the admin list labels Refined; and every payload in the store
\* that the validator accepts is labelled Refined.
C25_RefinedOrUntouched ==
    runs.pc = "done" /\ ~runs.dry_run /\ ~runs.delete_invalid =>
        /\ Len(records) = Len(runs.before)
        /\ \A i \in 1..Len(runs.before) :
              LET id == runs.before[i].id IN
              /\ HasEntry(records, id)
              /\ (id \in runs.invalid_entries) # (id \in runs.refined_entries)
              /\ id \in runs.invalid_entries =>
                    PayloadOf(records, id) = runs.before[i].data
              /\ id \in runs.refined_entries =>
                    /\ validate_calendar_format(PayloadOf(records, id)).ok
                    /\ refine_data(PayloadOf(records, id)) = PayloadOf(records, id)
                    /\ data_status(PayloadOf(records, id)) = "Refined"
        /\ \A j \in 1..Len(records) :
              validate_calendar_format(records[j].data).ok =>
                  data_status(records[j].data) = "Refined"

\* a completed save-mode sweep that rewrote one record and rejected another
C25_Witness ==
    /\ runs.pc = "done"
    /\ ~runs.dry_run
    /\ ~runs.delete_invalid
    /\ \E i, j \in 1..Len(runs.before) :
          /\ runs.before[i].id \in runs.refined_entries
          /\ records[i].data # runs.before[i].data
          /\ runs.before[j].id \in runs.invalid_entries

(***************************************************************************)
(* Properties of the store as a whole                                      *)
(***************************************************************************)
\* every school has at most one record
OneRecordEach(recs) == \A s \in Schools : Cardinality(SchoolRecords(recs, s)) <= 1

\* the ids of the records of the store
RecordIds(recs) == {recs[i].id : i \in 1..Len(recs)}

\* the step is one of the operations other than the admin's add form
NotAdminAdd == output'.op # "admin_add"

StageOrdered(sch) == \A s \in Schools : sch[s].second_scraper => sch[s].process

\* the step is a run of the reconciler with --set-false
DemotionRun == output'.op = "update_process_status" /\ input'.set_false

\* C27: no request or command run other than a reconciler run with demotion
\* leads from a state where every school with second_scraper set has process
\* set to a state where one has not; the schools as imported are in such a
\* state.  A reconciler run with demotion can lead out of it.
C27_StageOrdering ==
    [][StageOrdered(schools) /\ ~DemotionRun => StageOrdered(schools')]_vars

\* a reconciler run with demotion has cleared process on a school whose
\* second_scraper stays set
C27_Witness ==
    /\ output.op = "update_process_status"
    /\ output.mode = "UPDATE MODE"
    /\ output.set_false
    /\ \E s \in output.to_set_false :
          /\ schools[s].second_scraper
          /\ ~schools[s].process
    /\ \A s \in Schools \ output.to_set_false : schools[s].second_scraper => schools[s].process

\* the invalid-data endpoint has set second_scraper on a school, and the order
\* of the stages holds
C27_WitnessOrdered ==
    /\ output.op = "invalid_data"
    /\ output.status = 200
    /\ schools[output.school_id].second_scraper
    /\ StageOrdered(schools)

\* the state is the one that an update-mode run of the reconciler has left
AfterUpdateRun == output.op = "update_process_status" /\ output.mode = "UPDATE MODE"

C28_WitnessNoDemotion ==
    /\ AfterUpdateRun
    /\ ~output.set_false
    /\ output.to_set_true # {}
    /\ \E s \in Schools : schools[s].process /\ ~has_valid_calendar_data(records, s)

\* C28, write by write: when an update-mode run whose saves all succeeded has
\* ended, there is no school left to promote and, after a run with demotion,
\* none to demote.
C28_IdempotentWhenAllSaved ==
    (/\ runs.pc = "done"
     /\ ~runs.dry_run
     /\ runs.updated_true_count + runs.updated_false_count = Len(ToWrite(runs))) =>
        /\ schools_to_set_true(schools, records) = {}
        /\ schools_to_set_false(schools, records, runs.set_false) = {}

(***************************************************************************)
(* Calls of GET /api/schools/invalid-data/ one after the other, on a store *)
(* that was filled before the first call                                   *)
(***************************************************************************)
\* records are entered before the first call
CallsSetUp ==
    /\ output.op # "invalid_data"
    /\ AdminAddRecord

NextCalls == CallsSetUp \/ get_schools_with_invalid_data

\* the caller goes on calling
SpecCalls == Init /\ [][NextCalls]_vars /\ WF_vars(get_schools_with_invalid_data)

\* the schools that the endpoint has handed out
HandedOut(sch) == {s \in Schools : sch[s].second_scraper}

\* the step is a call of the endpoint that answers 200
HandsOut == output'.op = "invalid_data" /\ output'.status = 200

\* C30, the calls: a call that answers 200 names a school that was a candidate
\* and had not been handed out, and takes exactly this school out of the
\* candidates; a call that answers 404 finds no candidate and changes nothing.
C30_HandedOutOnce ==
    [][output'.op = "invalid_data" =>
          IF output'.status = 200
          THEN /\ output'.school_id \in valid_schools(schools, records)
               /\ output'.school_id \notin HandedOut(schools)
               /\ HandedOut(schools') = HandedOut(schools) \cup {output'.school_id}
               /\ valid_schools(schools', records')
                     = valid_schools(schools, records) \ {output'.school_id}
          ELSE /\ output'.status = 404
               /\ valid_schools(schools, records) = {}
               /\ StoreUnchanged]_vars

\* C30, the end: the calls answer 404 from some call on
C30_EventuallyNotFound ==
    <>[](output.op = "invalid_data" /\ output.status = 404)

\* a school without records that has been handed out and would be a candidate
\* again but for its flag
HandedOutNoData(sch, recs, s) ==
    /\ sch[s].second_scraper
    /\ ~HasRecords(recs, s)
    /\ s \in valid_schools([sch EXCEPT ![s].second_scraper = FALSE], recs)

\* C30, the flag reset: a run of the flag-reset sweep without --dry-run makes
\* every handed-out school without records a candidate of the endpoint again.
C30_ResetMakesEligible ==
    [][(output'.op = "reset_scraper_flags" /\ ~input'.dry_run) =>
          \A s \in Schools :
             HandedOutNoData(schools, records, s) =>
                 s \in valid_schools(schools', records')]_vars

\* both schools have been handed out and the next call has answered 404
C30_WitnessExhausted ==
    /\ output.op = "invalid_data"
    /\ output.status = 404
    /\ HandedOut(schools) = Schools

====
